---- MODULE Spec2Model ----
(***************************************************************************)
(* A model of abcxyz/github-action-dispatcher.                             *)
(*                                                                         *)
(* Six planes  of the program are modelled, each with its own              *)
(* specification over the same variables:                                  *)
(*   SpecWebhook    the /webhook handler (package webhook)                 *)
(*   SpecDiscovery  the runner-discovery job (package discovery)           *)
(*   SpecOverlap    two instances of the job with overlapping cycles       *)
(*   SpecAllow      the /jit-config allowlist (Server.isAllowed)           *)
(*   SpecJIT        the /jit-config handler (processJITConfigRequest)      *)
(*   SpecRetry      the retried downstream calls (goretry.Do, newBackoff)  *)
(*   SpecConfig     the validation of the webhook Config (Config.Validate) *)
(***************************************************************************)
EXTENDS Integers, Sequences, FiniteSets, TLC

(***************************************************************************)
(* Bounds of the model.                                                    *)
(***************************************************************************)
\* extraRunnerCount ranges over 0..MaxExtraRunners (the configuration allows 0..9).
MaxExtraRunners == 2
\* A workflow job carries 0..MaxLabels labels.
MaxLabels == 2
\* The asset search returns 0..MaxProjects projects in one discovery cycle.
MaxProjects == 2
\* Project ids range over 1..MaxProjectID.
MaxProjectID == 2
\* A worker-pool listing returns 0..MaxPools pools.
MaxPools == 1
\* Each of two overlapping cycles finds 0..MaxOverlapProjects projects.
MaxOverlapProjects == 1
\* maxRetryAttempts ranges over -1..MaxRetryConfig.
MaxRetryConfig == 2
\* A paginated listing yields 0..MaxItems items before it is done.
MaxItems == 2
\* One goretry.Do is followed for at most MaxTries attempts.
MaxTries == 4

(***************************************************************************)
(* The state.                                                              *)
(***************************************************************************)
\* The webhook handler.
VARIABLES
    server,              \* the Server's configuration fields
    event,               \* the delivery being handled
    whPC,                \* position of the handler: idle, loop, mint, build, done
    spawnI,              \* i of startRunnersForJob's loop
    runnerID,            \* runnerID of the current iteration
    labelToUse,          \* label chosen by handleQueuedEvent
    startedRunnerNames,  \* startedRunnerNames of startRunnersForJob
    uuidNext,            \* source of fresh runner ids (uuid.New)
    mints,               \* JIT configs minted for this request, in order
    builds,              \* builds submitted for this request, in order
    downstreamFailed,    \* a JIT mint or a build submission returned an error
    resp                 \* the apiResponse written, NoResp before

whVars == <<server, event, whPC, spawnI, runnerID, labelToUse,
            startedRunnerNames, uuidNext, mints, builds, downstreamFailed, resp>>

\* The discovery job.
VARIABLES
    registry,     \* the key/value store: a function from the keys present to values
    config,       \* the discovery Config and whether a registry client is set (rd.rc)
    run,          \* per job instance: the position and the locals of Run
    prevCycle,    \* the grouped pools of the last cycle that completed, if it did
    idem          \* set when a cycle completes: how it compares with the one before

dVars == <<registry, config, run, prevCycle, idem>>

\* The /jit-config allowlist.
VARIABLES
    jitConfigAllowlist,  \* owner -> repo -> labels, as loaded from the configuration
    payload,             \* the request: owner, repo, labels
    lastAdd              \* the last entry added to the allowlist, and the
                         \* decision on the request before it was added

aVars == <<jitConfigAllowlist, payload, lastAdd>>

\* The /jit-config handler.
VARIABLES
    jitReq,     \* the request being handled: its IAP token and its body
    jitStep,    \* position of the handler: 0 idle, then the index of the next
                \* step of processJITConfigRequest, past the last one when answered
    guards,     \* the steps executed for this request, in order
    jitMints,   \* the GenerateRepoJITConfig calls made for this request
    jitResp     \* the apiResponse written, NoResp before

jVars == <<jitReq, jitStep, guards, jitMints, jitResp>>

\* The retried downstream calls.
VARIABLES
    rCfg,       \* the client's retry configuration: maxRetryAttempts
    rCall,      \* the call in progress: none, jit, build, projects, pools
    rPC,        \* idle, do (inside goretry.Do), done (returned to the caller)
    rBackoff,   \* the backoff object goretry.Do is running with
    rDos,       \* one record for each goretry.Do of this call, in order: the
                \* backoff it started with and the attempts it has made
    rLast,      \* what the downstream returned to the last attempt
    rItems,     \* the items a listing has collected
    rResult,    \* what the call returned to its caller, NoResult before
    rCtx,       \* the context the caller passed: whether it is done, and
                \* whether an attempt was still to come when it was cancelled
    rBackend    \* the builds the backend has created for this call's request

rVars == <<rCfg, rCall, rPC, rBackoff, rDos, rLast, rItems, rResult, rCtx, rBackend>>

\* The webhook requests the server handles at the same time, each in the
\* goroutine net/http starts for it.
VARIABLES
    reqs,       \* for each request, what its handler holds in its locals
    uuidIssued  \* how many ids uuid.New() has handed out in this process

xVars == <<reqs, uuidIssued>>

\* The JIT config on its way from the webhook to the runner.
VARIABLES
    encodedJITConfig,   \* *jitConfig.EncodedJITConfig, the bytes of the string
    compressedJIT,      \* the value of the _ENCODED_JIT_CONFIG substitution
    runnerJITConfig     \* ENCODED_JIT_CONFIG in start_runner.sh after "Uncompress"

eVars == <<encodedJITConfig, compressedJIT, runnerJITConfig>>

\* The validation of the webhook configuration.
VARIABLES
    cfg,        \* the Config as loaded from the environment
    cfgErr      \* what Validate returned: NotValidated before, "" for nil
                \* or the error

cVars == <<cfg, cfgErr>>

vars == <<whVars, dVars, aVars, jVars, rVars, cVars, xVars, eVars>>

(***************************************************************************)
(* Generic helpers.                                                        *)
(***************************************************************************)
SeqsUpTo(S, n) == UNION {[1..k -> S] : k \in 0..n}

Range(s) == {s[k] : k \in 1..Len(s)}

(***************************************************************************)
(*                        THE WEBHOOK HANDLER                              *)
(***************************************************************************)

deprecatedSelfHostedRunnerLabel == "self-hosted"
selfHostedUbuntuLatestRunnerLabel == "sh-ubuntu-latest"
runnerStartedMsg == "runner started"

StatusOK == 200
StatusBadRequest == 400
StatusInternalServerError == 500
StatusForbidden == 403

\* Labels a workflow job may carry, and labels a server may be configured with.
JobLabels == {"self-hosted", "sh-ubuntu-latest", "custom-label", "other-label"}
ServerRunnerLabels == {"self-hosted", "custom-label"}

Servers == [runnerLabel : ServerRunnerLabels,
            enableSelfHostedLabel : BOOLEAN,
            extraRunnerCount : 0..MaxExtraRunners]

LabelLists == SeqsUpTo(JobLabels, MaxLabels)

\* The required fields of a queued event; "missing" names the absent one.
MissingFields == {"none", "installation", "org", "repo"}

EventTypes == {"workflow_job", "installation", "installation_repositories", "push"}
Actions == {"queued", "in_progress", "completed", "waiting"}

NoEvent == [sigOK |-> FALSE, type |-> "none", hasAction |-> FALSE,
            hasWorkflowJob |-> FALSE, action |-> "none", labels |-> <<>>,
            missing |-> "none"]

\* Deliveries.  Fields the handler cannot reach (the action of an event without
\* a workflow job, the labels of an installation event) are left at a default.
Events ==
    \* a bad signature, whatever the rest
    [sigOK : {FALSE}, type : EventTypes, hasAction : {TRUE}, hasWorkflowJob : {TRUE},
     action : Actions, labels : LabelLists, missing : {"none"}]
    \cup
    \* a signed event of another type
    [sigOK : {TRUE}, type : EventTypes \ {"workflow_job"}, hasAction : {FALSE},
     hasWorkflowJob : {FALSE}, action : {"none"}, labels : {<<>>}, missing : {"none"}]
    \cup
    \* a signed workflow_job event lacking action or workflow_job
    {[sigOK |-> TRUE, type |-> "workflow_job", hasAction |-> a, hasWorkflowJob |-> j,
      action |-> IF a THEN "queued" ELSE "none", labels |-> <<>>, missing |-> "none"] :
        <<a, j>> \in {<<FALSE, FALSE>>, <<FALSE, TRUE>>, <<TRUE, FALSE>>}}
    \cup
    \* a signed, well-formed workflow_job event
    [sigOK : {TRUE}, type : {"workflow_job"}, hasAction : {TRUE}, hasWorkflowJob : {TRUE},
     action : Actions, labels : LabelLists, missing : MissingFields]

NoResp == [code |-> 0, msg |-> "", runnerNames |-> <<>>, failedRunner |-> 0]

TextResp(code, msg) ==
    [code |-> code, msg |-> msg, runnerNames |-> <<>>, failedRunner |-> 0]

\* A variant that answers with the message alone.
RunnersRespNoNames(names) ==
    [code |-> StatusOK, msg |-> runnerStartedMsg, runnerNames |-> <<>>, failedRunner |-> 0]

\* json.Marshal(&runnersResponse{Message: runnerStartedMsg, RunnerNames: names})
RunnersResp(names) ==
    [code |-> StatusOK, msg |-> runnerStartedMsg, runnerNames |-> names, failedRunner |-> 0]

\* A variant that reports a downstream failure as a bad request.
FailedRespBadRequest(id) ==
    [code |-> StatusBadRequest, msg |-> "failed on runner",
     runnerNames |-> <<>>, failedRunner |-> id]

\* err.Error() of "failed on runner %s: %w. response: %s": the only runner id in
\* the body is the one of the runner that failed.
FailedResp(id) ==
    [code |-> StatusInternalServerError, msg |-> "failed on runner",
     runnerNames |-> <<>>, failedRunner |-> id]

\* The runner ids that appear in the body of a response.
BodyRunnerIDs(r) ==
    Range(r.runnerNames) \cup (IF r.failedRunner # 0 THEN {r.failedRunner} ELSE {})

\* A variant that looks at the event type before it validates the signature.
validateGitHubPayloadTypeFirst(ev) ==
    IF ev.type \in {"installation", "installation_repositories"} THEN "ignored"
    ELSE IF ~ev.sigOK THEN "error"
    ELSE IF ev.type # "workflow_job" THEN "error"
    ELSE IF ~ev.hasAction \/ ~ev.hasWorkflowJob THEN "error"
    ELSE "event"

\* A variant that takes every event that is not a workflow_job for an error.
validateGitHubPayloadNoIgnore(ev) ==
    IF ~ev.sigOK THEN "error"
    ELSE IF ev.type # "workflow_job" THEN "error"
    ELSE IF ~ev.hasAction \/ ~ev.hasWorkflowJob THEN "error"
    ELSE "event"

\* validateGitHubPayload: "error", "ignored" (nil event, nil error) or "event".
validateGitHubPayload(ev) ==
    IF ~ev.sigOK THEN "error"
    ELSE IF ev.type \in {"installation", "installation_repositories"} THEN "ignored"
    ELSE IF ev.type # "workflow_job" THEN "error"
    ELSE IF ~ev.hasAction \/ ~ev.hasWorkflowJob THEN "error"
    ELSE "event"

\* A variant that lets any non-empty label list through.
SingleLabelAnyCount(labels) == Len(labels) >= 1

\* handleQueuedEvent: "We don't support jobs with multiple labels."
SingleLabel(labels) == Len(labels) = 1

\* A variant that starts the runners with the label of the job.
LabelToUseIncoming(s, incomingLabel) ==
    IF incomingLabel = s.runnerLabel \/ incomingLabel = selfHostedUbuntuLatestRunnerLabel
    THEN incomingLabel
    ELSE IF s.enableSelfHostedLabel /\ incomingLabel = deprecatedSelfHostedRunnerLabel
    THEN deprecatedSelfHostedRunnerLabel
    ELSE ""

\* handleQueuedEvent: the label the runners are started with, "" for none.
LabelToUse(s, incomingLabel) ==
    IF incomingLabel = s.runnerLabel \/ incomingLabel = selfHostedUbuntuLatestRunnerLabel
    THEN s.runnerLabel
    ELSE IF s.enableSelfHostedLabel /\ incomingLabel = deprecatedSelfHostedRunnerLabel
    THEN deprecatedSelfHostedRunnerLabel
    ELSE ""

\* A variant that stops one runner short.
LoopCondOffByOne(i, s) == i <= s.extraRunnerCount

\* startRunnersForJob: for i := 1; i <= 1+s.extraRunnerCount; i++
LoopCond(i, s) == i <= 1 + s.extraRunnerCount

WhInit ==
    /\ server \in Servers
    /\ event = NoEvent
    /\ whPC = "idle"
    /\ spawnI = 0
    /\ runnerID = 0
    /\ labelToUse = ""
    /\ startedRunnerNames = <<>>
    /\ uuidNext = 1
    /\ mints = <<>>
    /\ builds = <<>>
    /\ downstreamFailed = FALSE
    /\ resp = NoResp

\* A variant without the check of the required event fields.
handleQueuedEventNoFieldCheck(s, ev) ==
    IF ~SingleLabel(ev.labels)
    THEN [spawn |-> FALSE, label |-> "",
          resp |-> TextResp(StatusOK, "no action taken, only accept single label jobs")]
    ELSE IF LabelToUse(s, ev.labels[1]) = ""
    THEN [spawn |-> FALSE, label |-> "",
          resp |-> TextResp(StatusOK, "no action taken for label")]
    ELSE [spawn |-> TRUE, label |-> LabelToUse(s, ev.labels[1]), resp |-> NoResp]

\* handleQueuedEvent up to the call of startRunnersForJob: the response it
\* returns early, or the decision to spawn runners with a label.
handleQueuedEvent(s, ev) ==
    IF ~SingleLabel(ev.labels)
    THEN [spawn |-> FALSE, label |-> "",
          resp |-> TextResp(StatusOK, "no action taken, only accept single label jobs")]
    ELSE IF LabelToUse(s, ev.labels[1]) = ""
    THEN [spawn |-> FALSE, label |-> "",
          resp |-> TextResp(StatusOK, "no action taken for label")]
    ELSE IF ev.missing # "none"
    THEN [spawn |-> FALSE, label |-> LabelToUse(s, ev.labels[1]),
          resp |-> TextResp(StatusBadRequest, "unexpected event payload struture")]
    ELSE [spawn |-> TRUE, label |-> LabelToUse(s, ev.labels[1]), resp |-> NoResp]

\* A variant that also spawns runners for a waiting job.
IsQueuedActionOrWaiting(action) == action \in {"queued", "waiting"}

\* processRequest: case "queued" of the switch on *event.Action.
IsQueuedAction(action) == action = "queued"

\* processRequest up to its first suspension point: validation, dispatch on the
\* action and, for a queued event, handleQueuedEvent.
Dispatch(s, ev) ==
    CASE validateGitHubPayload(ev) = "error" ->
            [spawn |-> FALSE, label |-> "",
             resp |-> TextResp(StatusBadRequest, "failed to validate github payload")]
      [] validateGitHubPayload(ev) = "ignored" ->
            [spawn |-> FALSE, label |-> "", resp |-> TextResp(StatusOK, "ignored event")]
      [] OTHER ->
            CASE IsQueuedAction(ev.action) -> handleQueuedEvent(s, ev)
              [] ev.action = "in_progress" ->
                    [spawn |-> FALSE, label |-> "",
                     resp |-> TextResp(StatusOK, "workflow job in progress event logged")]
              [] ev.action = "completed" ->
                    [spawn |-> FALSE, label |-> "",
                     resp |-> TextResp(StatusOK, "workflow job completed event logged")]
              [] OTHER ->
                    [spawn |-> FALSE, label |-> "",
                     resp |-> TextResp(StatusOK, "no action taken for action type")]

\* A delivery arrives and processRequest runs up to the spawn loop.
processRequest ==
    /\ whPC = "idle"
    /\ \E ev \in Events :
        /\ event' = ev
        /\ labelToUse' = Dispatch(server, ev).label
        /\ resp' = Dispatch(server, ev).resp
        /\ whPC' = IF Dispatch(server, ev).spawn THEN "loop" ELSE "done"
        /\ spawnI' = IF Dispatch(server, ev).spawn THEN 1 ELSE 0
    /\ runnerID' = 0
    /\ startedRunnerNames' = <<>>
    /\ mints' = <<>>
    /\ builds' = <<>>
    /\ downstreamFailed' = FALSE
    /\ uuidNext' = 1
    /\ UNCHANGED server
    /\ UNCHANGED <<dVars, aVars, jVars, rVars, cVars, xVars, eVars>>

\* startRunnersForJob, head of the loop: a fresh runner id for iteration i, or
\* the end of the loop and the 200 response of handleQueuedEvent.
startRunnersForJob ==
    /\ whPC = "loop"
    /\ IF LoopCond(spawnI, server)
       THEN /\ runnerID' = uuidNext
            /\ uuidNext' = uuidNext + 1
            /\ whPC' = "mint"
            /\ UNCHANGED resp
       ELSE /\ resp' = RunnersResp(startedRunnerNames)
            /\ whPC' = "done"
            /\ UNCHANGED <<runnerID, uuidNext>>
    /\ UNCHANGED <<server, event, spawnI, labelToUse, startedRunnerNames,
                   mints, builds, downstreamFailed>>
    /\ UNCHANGED <<dVars, aVars, jVars, rVars, cVars, xVars, eVars>>

\* A variant that goes on to the build after a failed mint.
MintFailedGoesOn == "build"

\* startGitHubRunner returns when GenerateRepoJITConfig returned an error.
MintFailed == "done"

\* startGitHubRunner, first half: s.GenerateRepoJITConfig returns a JIT config or
\* an error; the error ends startRunnersForJob and the request with a 500.
JITConfigReturned(ok) ==
    /\ whPC = "mint"
    /\ IF ok
       THEN /\ mints' = Append(mints, [runner |-> runnerID, label |-> labelToUse])
            /\ whPC' = "build"
            /\ UNCHANGED <<resp, downstreamFailed>>
       ELSE /\ resp' = FailedResp(runnerID)
            /\ downstreamFailed' = TRUE
            /\ whPC' = MintFailed
            /\ UNCHANGED mints
    /\ UNCHANGED <<server, event, spawnI, runnerID, labelToUse, startedRunnerNames,
                   uuidNext, builds>>

GenerateRepoJITConfig ==
    /\ \E ok \in BOOLEAN : JITConfigReturned(ok)
    /\ UNCHANGED <<dVars, aVars, jVars, rVars, cVars, xVars, eVars>>

\* startGitHubRunner, second half: s.cbc.CreateBuild returns nil or an error;
\* on success the runner id is appended and the loop goes on with i+1.
CreateBuildReturned(ok) ==
    /\ whPC = "build"
    /\ IF ok
       THEN /\ builds' = Append(builds, [runner |-> runnerID, label |-> labelToUse])
            /\ startedRunnerNames' = Append(startedRunnerNames, runnerID)
            /\ spawnI' = spawnI + 1
            /\ whPC' = "loop"
            /\ UNCHANGED <<resp, downstreamFailed>>
       ELSE /\ resp' = FailedResp(runnerID)
            /\ downstreamFailed' = TRUE
            /\ whPC' = "done"
            /\ UNCHANGED <<builds, startedRunnerNames, spawnI>>
    /\ UNCHANGED <<server, event, runnerID, labelToUse, uuidNext, mints>>

CreateBuild ==
    /\ \E ok \in BOOLEAN : CreateBuildReturned(ok)
    /\ UNCHANGED <<dVars, aVars, jVars, rVars, cVars, xVars, eVars>>

\* handleWebhook writes the response; the request and all it held are gone.
handleWebhook ==
    /\ whPC = "done"
    /\ event' = NoEvent
    /\ whPC' = "idle"
    /\ spawnI' = 0
    /\ runnerID' = 0
    /\ labelToUse' = ""
    /\ startedRunnerNames' = <<>>
    /\ uuidNext' = 1
    /\ mints' = <<>>
    /\ builds' = <<>>
    /\ downstreamFailed' = FALSE
    /\ resp' = NoResp
    /\ UNCHANGED server
    /\ UNCHANGED <<dVars, aVars, jVars, rVars, cVars, xVars, eVars>>

WhNext ==
    \/ processRequest
    \/ handleWebhook
    \/ startRunnersForJob
    \/ GenerateRepoJITConfig
    \/ CreateBuild

(***************************************************************************)
(*                        THE DISCOVERY JOB                                *)
(*                                                                         *)
(* A registry key "a:b" is the pair <<a, b>>: label values hold no colon.  *)
(* A pool name is its rank in the lexicographic order of the names.  The   *)
(* JSON array json.Marshal makes of a pool list is the list itself.        *)
(***************************************************************************)

runnerLabelGCPProjectLabelKey == "runner-label"
runnerLocationGCPProjectLabelKey == "runner-location"
runnerTypeGCPProjectLabelKey == "runner-type"

\* A label the project does not carry.
NoLabel == "<absent>"

\* Job instances.  SpecDiscovery runs the first.
DProcs == {1, 2}

EmptyMap == [k \in {} |-> <<>>]

Prefixes == {"default"}

\* Lexicographic rank of the strings that make up registry keys.
StrRank(str) ==
    CASE str = "default" -> 1
      [] str = "e2-large-stale" -> 2
      [] str = "e2-medium" -> 3
      [] str = "e2-small" -> 4
      [] str = "gpu" -> 5
      [] OTHER -> 0

\* sort.Strings on keys "type:label": no type is a prefix of another, so the
\* order is by type, then by label.
KeyLess(a, b) ==
    \/ StrRank(a[1]) < StrRank(b[1])
    \/ a[1] = b[1] /\ StrRank(a[2]) < StrRank(b[2])

\* The labels of the projects the asset search may return.
ProjectLabelSets ==
    {[rtype |-> "default", rlabel |-> "e2-medium", rlocation |-> "us-central1"],
     [rtype |-> "default", rlabel |-> "e2-small", rlocation |-> "us-central1"],
     [rtype |-> "gpu", rlabel |-> "e2-medium", rlocation |-> "us-central1"],
     [rtype |-> NoLabel, rlabel |-> "e2-medium", rlocation |-> "us-central1"],
     [rtype |-> "default", rlabel |-> "", rlocation |-> "us-central1"],
     [rtype |-> "default", rlabel |-> "e2-small", rlocation |-> NoLabel]}

ProjectInfos == [ID : 1..MaxProjectID, Labels : ProjectLabelSets]

\* The names of the worker pools of a project.
PoolNames(projectID) == {projectID * 10 + j : j \in 1..MaxPools}

\* The configurations a listed pool may have: a private pool config with a
\* worker config that names a machine type, one whose worker config leaves the
\* machine type empty, one without a worker config, and a pool that is not a
\* private pool.
PoolConfigs == {"private", "private-no-machine-type", "private-no-worker-config",
                "hybrid"}

\* What ListWorkerPools may return for a project.
PoolLists(projectID) ==
    SeqsUpTo([name : PoolNames(projectID), cfg : PoolConfigs], MaxPools)

\* A variant that only checks that the three labels are present.
HasRequiredLabelsPresent(project) ==
    /\ project.Labels.rtype # NoLabel
    /\ project.Labels.rlabel # NoLabel
    /\ project.Labels.rlocation # NoLabel

\* Run's checks of the three required project labels: present and non-empty.
HasRequiredLabels(project) ==
    /\ project.Labels.rtype # NoLabel /\ project.Labels.rtype # ""
    /\ project.Labels.rlabel # NoLabel /\ project.Labels.rlabel # ""
    /\ project.Labels.rlocation # NoLabel /\ project.Labels.rlocation # ""

\* registryKey := fmt.Sprintf("%s:%s", runnerType, runnerLabel)
RegistryKey(project) == <<project.Labels.rtype, project.Labels.rlabel>>

\* A variant that records every pool that is listed.
RecordedAny(wp) == TRUE

\* A pool is recorded when it has a private pool config with a worker config;
\* the machine type of the worker config is not looked at.
Recorded(wp) == wp.cfg \in {"private", "private-no-machine-type"}

\* poolsByRegistryKey[registryKey] = append(poolsByRegistryKey[registryKey], name)
AppendPool(m, key, name) ==
    IF key \in DOMAIN m
    THEN [m EXCEPT ![key] = Append(@, name)]
    ELSE m @@ (key :> <<name>>)

\* The loop over the worker pools of one project.
RECURSIVE AddPools(_, _, _)
AddPools(m, key, wps) ==
    IF wps = <<>> THEN m
    ELSE AddPools(IF Recorded(Head(wps)) THEN AppendPool(m, key, Head(wps).name) ELSE m,
                  key, Tail(wps))

NumLess(a, b) == a < b

\* A variant that keeps the order of arrival.
SortPoolsNot(pools) == pools

\* sort.Strings(pools)
SortPools(pools) == SortSeq(pools, NumLess)

\* marshalledPools: each key's pools sorted and JSON-encoded.
MarshalledPools(m) == [k \in DOMAIN m |-> SortPools(m[k])]

\* The glob <prefix>:* of the scan.
MatchesPrefix(prefix, key) == key[1] = prefix

\* The keys a successful SCAN returns.
ScanKeys(reg, prefix) == {k \in DOMAIN reg : MatchesPrefix(prefix, k)}

RECURSIVE SetToSeq(_)
SetToSeq(S) ==
    IF S = {} THEN <<>>
    ELSE LET x == CHOOSE y \in S : TRUE IN <<x>> \o SetToSeq(S \ {x})

\* A variant that leaves the keys in descending order (the iteration order of a
\* map is arbitrary).
SortedKeysDescending(m) == SortSeq(SetToSeq(DOMAIN m), LAMBDA a, b : KeyLess(b, a))

\* sortedKeys: the keys of marshalledPools after sort.Strings.
SortedKeys(m) == SortSeq(SetToSeq(DOMAIN m), KeyLess)

DelCmd(keys) == [op |-> "DEL", keys |-> keys, val |-> <<>>]
SetCmd(key, val) == [op |-> "SET", keys |-> {key}, val |-> val]

\* A variant that deletes on the store at once, outside the transaction.
PipeDelImmediate(reg, pipe, keys) ==
    [reg |-> [k \in DOMAIN reg \ keys |-> reg[k]], pipe |-> pipe]

\* pipe.Del(ctx, staleKeys...) queues the deletion; the store is not touched.
PipeDel(reg, pipe, keys) == [reg |-> reg, pipe |-> Append(pipe, DelCmd(keys))]

\* The SET commands of the sorted keys, in order.
SetCmds(m) == [n \in 1..Len(SortedKeys(m)) |-> SetCmd(SortedKeys(m)[n], m[SortedKeys(m)[n]])]

\* A variant that queues the deletion after the SETs.
QueueSetsFirst(dels, sets) == sets \o dels

\* The order the commands are queued in: the deletion, then the SETs.
QueueCmds(dels, sets) == dels \o sets

\* One command applied to the store.
ApplyCmd(reg, cmd) ==
    IF cmd.op = "DEL"
    THEN [k \in DOMAIN reg \ cmd.keys |-> reg[k]]
    ELSE LET key == CHOOSE k \in cmd.keys : TRUE
         IN  [k \in DOMAIN reg \cup {key} |-> IF k = key THEN cmd.val ELSE reg[k]]

\* MULTI/EXEC: the queued commands applied in order, as one step of the store.
RECURSIVE ApplyTx(_, _)
ApplyTx(reg, pipe) ==
    IF pipe = <<>> THEN reg ELSE ApplyTx(ApplyCmd(reg, Head(pipe)), Tail(pipe))

IdleRun == [pc |-> "idle", err |-> "", remaining |-> 0, listed |-> 0,
            poolsByRegistryKey |-> EmptyMap, marshalledPools |-> EmptyMap,
            scanned |-> FALSE, staleKeys |-> {}, pipe |-> <<>>,
            executed |-> FALSE, regAtStart |-> EmptyMap, cancelled |-> FALSE,
            seen |-> {}, listedFor |-> {}, skippedFor |-> {}, execSeq |-> 0]

\* Registries a first cycle may find: empty, or holding keys of earlier writers.
InitialRegistries ==
    {EmptyMap,
     (<<"default", "e2-large-stale">> :> <<11>>),
     (<<"default", "e2-large-stale">> :> <<11>>) @@ (<<"gpu", "e2-small">> :> <<21>>)}

DInit ==
    /\ registry \in InitialRegistries
    /\ config \in [RunnerRegistryDefaultKeyPrefix : Prefixes, rc : BOOLEAN]
    /\ run = [p \in DProcs |-> IdleRun]
    /\ prevCycle = [valid |-> FALSE, pools |-> EmptyMap]
    /\ idem = "none"

\* A variant in which a call may succeed on a context that is cancelled.
CallOutcomesIgnoringCtx(p) == BOOLEAN

\* Whether a downstream call made with Run's ctx may succeed: every call of Run
\* takes ctx, and returns the context's error once ctx is cancelled.
CallOutcomes(p) == IF run[p].cancelled THEN {FALSE} ELSE BOOLEAN

Fail(p, kind) ==
    /\ run' = [run EXCEPT ![p].pc = "failed", ![p].err = kind]
    /\ prevCycle' = [valid |-> FALSE, pools |-> EmptyMap]
    /\ idem' = "none"

\* Run is called and rd.aic.Projects returns the projects or an error.
Projects(p) ==
    /\ run[p].pc \in {"idle", "done", "failed"}
    /\ \E ok \in BOOLEAN :
        IF ok
        THEN /\ \E n \in 0..MaxProjects :
                    run' = [run EXCEPT ![p] = [IdleRun EXCEPT !.pc = "enumerate",
                                                              !.remaining = n,
                                                              !.regAtStart = registry]]
             /\ idem' = "none"
             /\ UNCHANGED prevCycle
        ELSE /\ run' = [run EXCEPT ![p] = [IdleRun EXCEPT !.pc = "failed",
                                                          !.err = "projects",
                                                          !.regAtStart = registry]]
             /\ prevCycle' = [valid |-> FALSE, pools |-> EmptyMap]
             /\ idem' = "none"
    /\ UNCHANGED <<registry, config>>
    /\ UNCHANGED <<whVars, aVars, jVars, rVars, cVars, xVars, eVars>>

\* A variant that skips the project whose listing failed (as the earlier
\* revision of Run did) and goes on.
ListErrorContinues(p) ==
    /\ run' = [run EXCEPT ![p].remaining = @ - 1, ![p].err = "list"]
    /\ UNCHANGED <<prevCycle, idem>>

\* A listing error aborts the cycle.
ListError(p) == Fail(p, "list")

\* One iteration of the loop over the projects: the label checks, the listing
\* of the project's worker pools and the loop over them.
CheckProject(p) ==
    /\ run[p].pc = "enumerate"
    /\ run[p].remaining > 0
    /\ \E project \in ProjectInfos :
        IF ~HasRequiredLabels(project)
        THEN /\ run' = [run EXCEPT ![p].remaining = @ - 1,
                                     ![p].skippedFor = @ \cup {project.Labels}]
             /\ UNCHANGED <<prevCycle, idem>>
        ELSE \E ok \in CallOutcomes(p) :
            IF ok
            THEN /\ \E wps \in PoolLists(project.ID) :
                    run' = [run EXCEPT
                        ![p].remaining = @ - 1,
                        ![p].listed = @ + 1,
                        ![p].seen = @ \cup Range(wps),
                        ![p].listedFor = @ \cup {project.Labels},
                        ![p].poolsByRegistryKey = AddPools(@, RegistryKey(project), wps)]
                 /\ UNCHANGED <<prevCycle, idem>>
            ELSE ListError(p)
    /\ UNCHANGED <<registry, config>>
    /\ UNCHANGED <<whVars, aVars, jVars, rVars, cVars, xVars, eVars>>

\* How a completed cycle compares with the one before it.
SameBag(s, t) ==
    /\ Len(s) = Len(t)
    /\ \A x \in Range(s) \cup Range(t) :
        Cardinality({k \in 1..Len(s) : s[k] = x}) = Cardinality({k \in 1..Len(t) : t[k] = x})

SamePools(m1, m2) ==
    /\ DOMAIN m1 = DOMAIN m2
    /\ \A k \in DOMAIN m1 : SameBag(m1[k], m2[k])

Complete(p, regAfter) ==
    /\ prevCycle' = [valid |-> TRUE, pools |-> run[p].poolsByRegistryKey]
    /\ idem' = IF prevCycle.valid /\ SamePools(prevCycle.pools, run[p].poolsByRegistryKey)
               THEN (IF regAfter = run[p].regAtStart THEN "same" ELSE "differs")
               ELSE "none"

\* A variant that goes on to the transaction after a failed scan.
ScanErrorIgnored(p, m) ==
    /\ run' = [run EXCEPT ![p].pc = "exec", ![p].err = "scan",
                           ![p].marshalledPools = m, ![p].scanned = TRUE,
                           ![p].pipe = SetCmds(m)]
    /\ UNCHANGED <<prevCycle, idem, registry>>

\* iter.Err() is not nil: Run returns before it opens the transaction.
ScanError(p, m) ==
    /\ run' = [run EXCEPT ![p].pc = "failed", ![p].err = "scan",
                           ![p].marshalledPools = m, ![p].scanned = TRUE]
    /\ prevCycle' = [valid |-> FALSE, pools |-> EmptyMap]
    /\ idem' = "none"
    /\ UNCHANGED registry

\* A variant that skips the transaction whenever the scan found no key.
SkipTransactionNoStale(staleKeys, m) == staleKeys = {}

\* len(staleKeys) == 0 && len(marshalledPools) == 0: nothing to delete or set.
SkipTransaction(staleKeys, m) == staleKeys = {} /\ DOMAIN m = {}

\* After the loop: the pools are sorted and marshalled, the registry is scanned,
\* and the transaction is queued unless there is nothing to delete or set.
Scan(p) ==
    /\ run[p].pc = "enumerate"
    /\ run[p].remaining = 0
    /\ LET m == MarshalledPools(run[p].poolsByRegistryKey) IN
       IF ~config.rc
       THEN /\ run' = [run EXCEPT ![p].pc = "done"]
            /\ Complete(p, registry)
            /\ UNCHANGED registry
       ELSE \E ok \in CallOutcomes(p) :
            IF ~ok
            THEN ScanError(p, m)
            ELSE LET stale == ScanKeys(registry, config.RunnerRegistryDefaultKeyPrefix)
                     del == IF stale # {} THEN PipeDel(registry, <<>>, stale)
                            ELSE [reg |-> registry, pipe |-> <<>>]
                 IN  IF SkipTransaction(stale, m)
                     THEN /\ run' = [run EXCEPT ![p].pc = "done", ![p].scanned = TRUE,
                                                ![p].marshalledPools = m]
                          /\ Complete(p, registry)
                          /\ UNCHANGED registry
                     ELSE /\ run' = [run EXCEPT ![p].pc = "exec", ![p].scanned = TRUE,
                                                ![p].marshalledPools = m,
                                                ![p].staleKeys = stale,
                                                ![p].pipe = QueueCmds(del.pipe, SetCmds(m))]
                          /\ registry' = del.reg
                          /\ UNCHANGED <<prevCycle, idem>>
    /\ UNCHANGED config
    /\ UNCHANGED <<whVars, aVars, jVars, rVars, cVars, xVars, eVars>>

\* pipe.Exec: the store runs the queued commands as one transaction, or the
\* transaction fails and nothing is applied.
Exec(p) ==
    /\ run[p].pc = "exec"
    /\ \E ok \in CallOutcomes(p) :
        IF ok
        THEN /\ registry' = ApplyTx(registry, run[p].pipe)
             /\ run' = [run EXCEPT ![p].pc = "done", ![p].executed = TRUE,
                                     ![p].execSeq = 1 + Cardinality({q \in DProcs : run[q].executed})]
             /\ Complete(p, ApplyTx(registry, run[p].pipe))
        ELSE /\ Fail(p, "exec")
             /\ UNCHANGED registry
    /\ UNCHANGED config
    /\ UNCHANGED <<whVars, aVars, jVars, rVars, cVars, xVars, eVars>>

\* The scheduler's deadline passes while the cycle is under way and the
\* transaction has not been executed: ctx is cancelled.
Cancel(p) ==
    /\ run[p].pc \in {"enumerate", "exec"}
    /\ ~run[p].cancelled
    /\ run' = [run EXCEPT ![p].cancelled = TRUE]
    /\ UNCHANGED <<registry, config, prevCycle, idem>>
    /\ UNCHANGED <<whVars, aVars, jVars, rVars, cVars, xVars, eVars>>

DNext ==
    \/ Projects(1)
    \/ CheckProject(1)
    \/ Scan(1)
    \/ Exec(1)
    \/ Cancel(1)

\* Two instances of the job whose cycles overlap: the second instance starts
\* its cycle when the first has queued its transaction, and either transaction
\* executes only when both are queued.
OtherProc(p) == IF p = 1 THEN 2 ELSE 1

OverlapTurn(p) ==
    /\ run[p].pc \in {"idle", "enumerate"}
    /\ IF p = 1 THEN run[2].pc = "idle" ELSE run[1].pc = "exec"

OverlapProjects(p) ==
    /\ OverlapTurn(p)
    /\ Projects(p)
    /\ run'[p].remaining <= MaxOverlapProjects

OverlapCheckProject(p) == OverlapTurn(p) /\ CheckProject(p)

OverlapScan(p) == OverlapTurn(p) /\ Scan(p)

OverlapExec(p) ==
    /\ run[OtherProc(p)].scanned
    /\ run[OtherProc(p)].pc \in {"exec", "done", "failed"}
    /\ Exec(p)

ONext ==
    \/ \E p \in DProcs : OverlapProjects(p)
    \/ \E p \in DProcs : OverlapCheckProject(p)
    \/ \E p \in DProcs : OverlapScan(p)
    \/ \E p \in DProcs : OverlapExec(p)

(***************************************************************************)
(*                     THE /jit-config ALLOWLIST                           *)
(*                                                                         *)
(* isAllowed only asks whether a label is in a list, so a label list is    *)
(* modelled by the set of its elements.                                    *)
(***************************************************************************)

AllowOwners == {"acme", "*"}
AllowRepos == {"svc", "*"}
AllowLabels == {"build", "*"}

Payloads == [owner : {"acme", "corp"}, repo : {"svc", "web"},
             labels : {{"build"}, {"build", "deploy"}}]

\* The repo maps an owner key may be added with.
RepoMaps ==
    UNION {[R -> SUBSET AllowLabels] : R \in SUBSET AllowRepos}

\* A variant that prefers the "*" key to the exact key.
isAllowedWildcardFirst(allowlist, owner, repo, labels) ==
    IF DOMAIN allowlist = {} THEN FALSE
    ELSE IF owner \notin DOMAIN allowlist /\ "*" \notin DOMAIN allowlist THEN FALSE
    ELSE LET repoMap == IF "*" \in DOMAIN allowlist
                        THEN allowlist["*"] ELSE allowlist[owner]
         IN  IF repo \notin DOMAIN repoMap /\ "*" \notin DOMAIN repoMap THEN FALSE
             ELSE LET allowedLabels == IF "*" \in DOMAIN repoMap
                                       THEN repoMap["*"] ELSE repoMap[repo]
                  IN  \A reqLabel \in labels :
                        "*" \in allowedLabels \/ reqLabel \in allowedLabels

\* A variant that is content with one allowed label.
isAllowedAnyLabel(allowlist, owner, repo, labels) ==
    IF DOMAIN allowlist = {} THEN FALSE
    ELSE IF owner \notin DOMAIN allowlist /\ "*" \notin DOMAIN allowlist THEN FALSE
    ELSE LET repoMap == IF owner \in DOMAIN allowlist
                        THEN allowlist[owner] ELSE allowlist["*"]
         IN  IF repo \notin DOMAIN repoMap /\ "*" \notin DOMAIN repoMap THEN FALSE
             ELSE LET allowedLabels == IF repo \in DOMAIN repoMap
                                       THEN repoMap[repo] ELSE repoMap["*"]
                  IN  \E reqLabel \in labels :
                        "*" \in allowedLabels \/ reqLabel \in allowedLabels

\* Server.isAllowed
isAllowed(allowlist, owner, repo, labels) ==
    IF DOMAIN allowlist = {} THEN FALSE
    ELSE IF owner \notin DOMAIN allowlist /\ "*" \notin DOMAIN allowlist THEN FALSE
    ELSE LET repoMap == IF owner \in DOMAIN allowlist
                        THEN allowlist[owner] ELSE allowlist["*"]
         IN  IF repo \notin DOMAIN repoMap /\ "*" \notin DOMAIN repoMap THEN FALSE
             ELSE LET allowedLabels == IF repo \in DOMAIN repoMap
                                       THEN repoMap[repo] ELSE repoMap["*"]
                  IN  \A reqLabel \in labels :
                        "*" \in allowedLabels \/ reqLabel \in allowedLabels

Allowed(allowlist, req) == isAllowed(allowlist, req.owner, req.repo, req.labels)

NoAdd == [kind |-> "none", owner |-> "", repo |-> "", label |-> "", before |-> FALSE]

AInit ==
    /\ jitConfigAllowlist = [o \in {} |-> EmptyMap]
    /\ payload \in Payloads
    /\ lastAdd = NoAdd

\* The allowlist with a new owner key.
AddOwner ==
    /\ UNCHANGED <<whVars, dVars, jVars, rVars, cVars, xVars, eVars>>
    /\ \E o \in AllowOwners \ DOMAIN jitConfigAllowlist, rm \in RepoMaps :
        /\ jitConfigAllowlist' = jitConfigAllowlist @@ (o :> rm)
        /\ lastAdd' = [kind |-> "owner", owner |-> o, repo |-> "", label |-> "",
                       before |-> Allowed(jitConfigAllowlist, payload)]
        /\ UNCHANGED payload

\* The allowlist with a new repo key under an owner.
AddRepo ==
    /\ UNCHANGED <<whVars, dVars, jVars, rVars, cVars, xVars, eVars>>
    /\ \E o \in DOMAIN jitConfigAllowlist :
        \E r \in AllowRepos \ DOMAIN jitConfigAllowlist[o], ls \in SUBSET AllowLabels :
            /\ jitConfigAllowlist' =
                    [jitConfigAllowlist EXCEPT ![o] = @ @@ (r :> ls)]
            /\ lastAdd' = [kind |-> "repo", owner |-> o, repo |-> r, label |-> "",
                           before |-> Allowed(jitConfigAllowlist, payload)]
            /\ UNCHANGED payload

\* The allowlist with a new label in a label list.
AddLabel ==
    /\ UNCHANGED <<whVars, dVars, jVars, rVars, cVars, xVars, eVars>>
    /\ \E o \in DOMAIN jitConfigAllowlist :
        \E r \in DOMAIN jitConfigAllowlist[o] :
            \E l \in AllowLabels \ jitConfigAllowlist[o][r] :
                /\ jitConfigAllowlist' =
                        [jitConfigAllowlist EXCEPT ![o][r] = @ \cup {l}]
                /\ lastAdd' = [kind |-> "label", owner |-> o, repo |-> r, label |-> l,
                               before |-> Allowed(jitConfigAllowlist, payload)]
                /\ UNCHANGED payload

ANext ==
    \/ AddOwner
    \/ AddRepo
    \/ AddLabel

(***************************************************************************)
(*                       THE /jit-config HANDLER                           *)
(***************************************************************************)

\* The x-goog-iap-jwt-assertion header: absent, not a valid token, a valid
\* token of another audience, a valid token of the configured audience.
IAPTokens == {"", "invalid", "other-audience", "valid"}

\* A variant that does not compare the audience.
validateIAPTokenNoAudience(token) == token \notin {"", "invalid"}

\* validateIAPToken: TRUE when it returns nil.
validateIAPToken(token) ==
    IF token = "" THEN FALSE
    ELSE IF token = "invalid" THEN FALSE
    ELSE IF token = "other-audience" THEN FALSE
    ELSE TRUE

\* The request bodies: one that does not decode, and the decoded payloads.
Malformed == [decodes |-> FALSE, owner |-> "", repo |-> "", labels |-> {}]

JITBodies ==
    {Malformed} \cup
    [decodes : {TRUE}, owner : {"", "acme", "corp"}, repo : {"", "svc"},
     labels : {{}, {"build"}, {"build", "deploy"}}]

JITRequests == [token : IAPTokens, body : JITBodies]

NoJITRequest == [token |-> "", body |-> Malformed]

\* Allowlists a server may be configured with.
JITAllowlists ==
    {[o \in {} |-> EmptyMap],
     ("acme" :> ("svc" :> {"build"})),
     ("acme" :> ("*" :> {"build", "deploy"})),
     ("*" :> ("*" :> {"*"}))}

\* A variant that mints before it asks the allowlist.
GuardOrderMintFirst == <<"token", "body", "mint", "allowlist">>

\* The steps of processJITConfigRequest, in the order of the code.
GuardOrder == <<"token", "body", "allowlist", "mint">>

JITDone == Len(GuardOrder) + 1

\* The step the handler is about to execute, "" when there is none.
JITAt == IF jitStep \in 1..Len(GuardOrder) THEN GuardOrder[jitStep] ELSE ""

\* A step returned no response: the next step, or the final 200.
JITPass(step) ==
    /\ guards' = Append(guards, step)
    /\ jitStep' = jitStep + 1
    /\ jitResp' = IF jitStep = Len(GuardOrder)
                  THEN TextResp(StatusOK, "jit config") ELSE jitResp

\* A step returned a response.
JITReturn(step, code, msg) ==
    /\ guards' = Append(guards, step)
    /\ jitStep' = JITDone
    /\ jitResp' = TextResp(code, msg)

JInit ==
    /\ jitReq = NoJITRequest /\ jitStep = 0 /\ guards = <<>>
    /\ jitMints = <<>> /\ jitResp = NoResp

\* A request arrives at /jit-config.
handleJITConfig ==
    /\ jitStep = 0
    /\ jitReq' \in JITRequests
    /\ jitStep' = 1 /\ guards' = <<>> /\ jitMints' = <<>> /\ jitResp' = NoResp
    /\ UNCHANGED <<whVars, dVars, aVars, rVars, cVars, xVars, eVars>>

\* validateIAPToken(ctx, iapToken, s.iapServiceAudience)
IAPGuard ==
    /\ JITAt = "token"
    /\ IF validateIAPToken(jitReq.token)
       THEN JITPass("token")
       ELSE JITReturn("token", StatusForbidden, "invalid IAP token")
    /\ UNCHANGED <<jitReq, jitMints>>
    /\ UNCHANGED <<whVars, dVars, aVars, rVars, cVars, xVars, eVars>>

\* The body is decoded and owner, repo and labels must not be empty.
BodyGuard ==
    /\ JITAt = "body"
    /\ IF ~jitReq.body.decodes
       THEN JITReturn("body", StatusBadRequest, "invalid request body")
       ELSE IF jitReq.body.owner = "" \/ jitReq.body.repo = "" \/ jitReq.body.labels = {}
       THEN JITReturn("body", StatusBadRequest, "owner, repo, and labels are required")
       ELSE JITPass("body")
    /\ UNCHANGED <<jitReq, jitMints>>
    /\ UNCHANGED <<whVars, dVars, aVars, rVars, cVars, xVars, eVars>>

\* s.isAllowed(payload.Owner, payload.Repo, payload.Labels)
AllowlistGuard ==
    /\ JITAt = "allowlist"
    /\ IF Allowed(jitConfigAllowlist, jitReq.body)
       THEN JITPass("allowlist")
       ELSE JITReturn("allowlist", StatusForbidden, "request denied by allowlist")
    /\ UNCHANGED <<jitReq, jitMints>>
    /\ UNCHANGED <<whVars, dVars, aVars, rVars, cVars, xVars, eVars>>

\* s.GenerateRepoJITConfig for the payload: the JIT config, or an error.
MintJITConfig ==
    /\ JITAt = "mint"
    /\ jitMints' = Append(jitMints, [owner |-> jitReq.body.owner, repo |-> jitReq.body.repo,
                                      labels |-> jitReq.body.labels])
    /\ \E ok \in BOOLEAN :
          IF ok THEN JITPass("mint")
          ELSE JITReturn("mint", StatusInternalServerError, "failed to generate JIT config")
    /\ UNCHANGED jitReq
    /\ UNCHANGED <<whVars, dVars, aVars, rVars, cVars, xVars, eVars>>

\* The response is written and the handler returns.
WriteJITResponse ==
    /\ jitStep = JITDone
    /\ jitStep' = 0
    /\ UNCHANGED <<jitReq, guards, jitMints, jitResp>>
    /\ UNCHANGED <<whVars, dVars, aVars, rVars, cVars, xVars, eVars>>

JNext ==
    \/ handleJITConfig
    \/ IAPGuard
    \/ BodyGuard
    \/ AllowlistGuard
    \/ MintJITConfig
    \/ WriteJITResponse

(***************************************************************************)
(*                   THE RETRIED DOWNSTREAM CALLS                          *)
(*                                                                         *)
(* generateJITConfig, CreateBuild, FindProjects and ListWorkerPools run    *)
(* their downstream request inside goretry.Do with the backoff their       *)
(* client's newBackoff builds.  One action is one attempt: the request,    *)
(* the classification of what it returned, and what the function does with *)
(* the verdict of goretry.Do.                                              *)
(***************************************************************************)
RetryCalls == {"jit", "build", "projects", "pools"}

NoOutcome == [err |-> FALSE, status |-> 0, item |-> "none", val |-> <<>>]

NoResult == [state |-> "none", msg |-> "", status |-> 0, items |-> <<>>]

\* What GenerateRepoJITConfig hands back: an error without a response (the
\* request never got an answer), or a response with its status code, with or
\* without an error next to it.  The client library reports a response outside
\* 2xx together with an error.
GitHubStatuses == {200, 302, 404, 429, 500}

GitHubOutcomes ==
    {[err |-> TRUE, status |-> 0, item |-> "none", val |-> <<>>]} \cup
    {[err |-> e, status |-> s, item |-> "none", val |-> <<>>] : e \in BOOLEAN, s \in GitHubStatuses}

\* What the build backend hands back: nil, a transient error or a permanent
\* one, or an error for a request it has carried out (the answer was lost or
\* came after the deadline of the attempt).
BuildOutcomes ==
    {[err |-> FALSE, status |-> 0, item |-> "none", val |-> <<>>],
     [err |-> TRUE, status |-> 0, item |-> "transient", val |-> <<>>],
     [err |-> TRUE, status |-> 0, item |-> "permanent", val |-> <<>>],
     [err |-> TRUE, status |-> 0, item |-> "accepted", val |-> <<>>]}

\* The backend has created a build for the request of this attempt.
BuildCreated(o) == ~o.err \/ o.item = "accepted"

\* The context of a call: live, or done since the caller cancelled it.
LiveCtx == [done |-> FALSE, callAhead |-> FALSE]

CancelledCtx(ahead) == [done |-> TRUE, callAhead |-> ahead]

ContextCanceled == "context canceled"

\* A variant of goretry.Do that never looks at its context.
ctxDoneIgnored(c) == FALSE

\* goretry.Do, before every call of the function and while it sleeps:
\* select { case <-ctx.Done(): return ctx.Err() }
ctxDone(c) == c.done

\* The resource names an iterator may yield, split at "/".
ItemNames == {<<"projects", "p1">>, <<"projects", "p2">>}

\* What it.Next() hands back: an item, iterator.Done, or an error.
NextOutcomes ==
    {[err |-> FALSE, status |-> 0, item |-> "item", val |-> v] : v \in ItemNames} \cup
    {[err |-> TRUE, status |-> 0, item |-> "done", val |-> <<>>],
     [err |-> TRUE, status |-> 0, item |-> "error", val |-> <<>>]}

\* A variant of newBackoff that never caps the retries.
newBackoffUncapped(maxRetryAttempts) ==
    [capped |-> FALSE, max |-> 0, attempt |-> 0]

\* newBackoff: the exponential backoff, wrapped in WithMaxRetries when
\* maxRetryAttempts is not negative.
newBackoff(maxRetryAttempts) ==
    IF maxRetryAttempts >= 0
    THEN [capped |-> TRUE, max |-> maxRetryAttempts, attempt |-> 0]
    ELSE [capped |-> FALSE, max |-> 0, attempt |-> 0]

\* WithMaxRetries: Next stops once as many retries were granted as max, and
\* counts the retry it grants.  The count lives in the backoff object.
BackoffStop(b) == b.capped /\ b.attempt >= b.max

BackoffNext(b) == IF b.capped THEN [b EXCEPT !.attempt = @ + 1] ELSE b

\* The classification generateJITConfig's retry function makes of an outcome:
\* nil, a goretry.RetryableError, or a plain error, with the message and the
\* status code it formats into it.
ClassifyJIT(o) ==
    IF o.err
    THEN [verdict |-> "retryable", msg |-> "GitHub API call failed", status |-> 0]
    ELSE IF o.status >= 200 /\ o.status < 300
    THEN [verdict |-> "nil", msg |-> "", status |-> 0]
    ELSE IF o.status = 429 \/ o.status >= 500
    THEN [verdict |-> "retryable", msg |-> "server responded with %d status code",
          status |-> o.status]
    ELSE IF o.status >= 400 /\ o.status < 500
    THEN [verdict |-> "error",
          msg |-> "server responded with non-retryable client error: %d",
          status |-> o.status]
    ELSE [verdict |-> "error",
          msg |-> "server responded with unexpected status code: %d",
          status |-> o.status]

\* CreateBuild's retry function: every error is a goretry.RetryableError.
ClassifyBuild(o) ==
    IF o.err
    THEN [verdict |-> "retryable", msg |-> "failed to create Cloud Build build",
          status |-> 0]
    ELSE [verdict |-> "nil", msg |-> "", status |-> 0]

\* The retry function of both listings: iterator.Done and an item are nil,
\* any other error is a goretry.RetryableError.
ClassifyNext(o) ==
    IF o.item = "error"
    THEN [verdict |-> "retryable", msg |-> "failed to get next", status |-> 0]
    ELSE [verdict |-> "nil", msg |-> "", status |-> 0]

\* goretry.Do after one attempt: it returns nil, returns the error, or sleeps
\* and calls the function again when the error is retryable and the backoff
\* grants one more retry.
goretryDo(c, b) ==
    IF c.verdict = "nil" THEN "nil"
    ELSE IF c.verdict = "error" THEN "error"
    ELSE IF BackoffStop(b) THEN "error"
    ELSE "again"

NewDo(b) == [backoff |-> b, attempts |-> 0, got |-> <<>>]

RInit ==
    /\ rCfg \in [maxRetryAttempts : -1..MaxRetryConfig]
    /\ rCall = "none"
    /\ rPC = "idle"
    /\ rBackoff = newBackoff(0)
    /\ rDos = <<>>
    /\ rLast = NoOutcome
    /\ rItems = <<>>
    /\ rResult = NoResult
    /\ rCtx = LiveCtx
    /\ rBackend = 0

\* The function is entered: it builds its backoff and enters goretry.Do.
BeginCallOf(c) ==
    /\ rPC = "idle"
    /\ rCall' = c
    /\ rPC' = "do"
    /\ rBackoff' = newBackoff(rCfg.maxRetryAttempts)
    /\ rDos' = <<NewDo(rBackoff')>>
    /\ rLast' = NoOutcome
    /\ rItems' = <<>>
    /\ rResult' = NoResult
    /\ rBackend' = 0
    /\ UNCHANGED <<rCfg, rCtx>>
    /\ UNCHANGED <<whVars, dVars, aVars, jVars, cVars, xVars, eVars>>

BeginCall == \E c \in RetryCalls : BeginCallOf(c)

\* The part all attempts share: the attempt is counted, and a retry that is
\* granted is counted in the backoff.
Attempted(o, c) ==
    /\ rPC = "do"
    /\ ~ctxDone(rCtx)
    /\ rDos[Len(rDos)].attempts < MaxTries
    /\ rLast' = o
    /\ rBackoff' = IF goretryDo(c, rBackoff) = "again"
                   THEN BackoffNext(rBackoff) ELSE rBackoff

\* A variant that returns the items collected so far with the error.
FailedKeepsItems(c, msg) ==
    /\ rPC' = "done"
    /\ rResult' = [state |-> "error", msg |-> msg, status |-> c.status, items |-> rItems]

\* The function returns its zero result and the error.
Failed(c, msg) ==
    /\ rPC' = "done"
    /\ rResult' = [state |-> "error", msg |-> msg, status |-> c.status, items |-> <<>>]

Succeeded ==
    /\ rPC' = "done"
    /\ rResult' = [state |-> "ok", msg |-> "", status |-> 0, items |-> <<>>]

\* A listing returns the items it has collected.
ReturnItems ==
    /\ rPC' = "done"
    /\ rResult' = [state |-> "ok", msg |-> "", status |-> 0, items |-> rItems]

\* What the loop appends for an item: FindProjects a ProjectInfo with the last
\* part of the resource name as its id, ListWorkerPools the pool itself.
Collected(call, item) ==
    IF call = "projects" THEN [ProjectID |-> item[Len(item)]] ELSE [Name |-> item]

CountAttempt == [rDos EXCEPT ![Len(rDos)].attempts = @ + 1]

\* One attempt of generateJITConfig.
generateJITConfig ==
    /\ rCall = "jit"
    /\ \E o \in GitHubOutcomes :
         LET c == ClassifyJIT(o)
             v == goretryDo(c, rBackoff)
         IN  /\ Attempted(o, c)
             /\ rDos' = CountAttempt
             /\ CASE v = "nil"   -> Succeeded
                  [] v = "error" -> Failed(c, c.msg)
                  [] v = "again" -> UNCHANGED <<rPC, rResult>>
    /\ UNCHANGED <<rCfg, rCall, rItems, rCtx, rBackend>>
    /\ UNCHANGED <<whVars, dVars, aVars, jVars, cVars, xVars, eVars>>

\* One attempt of the cloudbuild client's CreateBuild.
cloudbuildCreateBuild ==
    /\ rCall = "build"
    /\ \E o \in BuildOutcomes :
         LET c == ClassifyBuild(o)
             v == goretryDo(c, rBackoff)
         IN  /\ Attempted(o, c)
             /\ rDos' = CountAttempt
             /\ CASE v = "nil"   -> Succeeded
                  [] v = "error" -> Failed(c, c.msg)
                  [] v = "again" -> UNCHANGED <<rPC, rResult>>
             /\ rBackend' = IF BuildCreated(o) THEN rBackend + 1 ELSE rBackend
    /\ UNCHANGED <<rCfg, rCall, rItems, rCtx>>
    /\ UNCHANGED <<whVars, dVars, aVars, jVars, cVars, xVars, eVars>>

\* The backoff the next goretry.Do of a listing runs with.  FindProjects builds
\* one inside its loop; ListWorkerPools builds one before its loop and hands
\* the same object to every goretry.Do.
NextBackoff(call, b) ==
    IF call = "projects" THEN newBackoff(rCfg.maxRetryAttempts) ELSE b

\* One it.Next() of a listing, and what the loop does with it.
ListNext(call) ==
    /\ rCall = call
    /\ \E o \in NextOutcomes :
         LET c == ClassifyNext(o)
             v == goretryDo(c, rBackoff)
         IN  /\ o.item = "item" => Len(rItems) < MaxItems
             /\ rPC = "do"
             /\ ~ctxDone(rCtx)
             /\ rDos[Len(rDos)].attempts < MaxTries
             /\ rLast' = o
             /\ CASE v = "again" ->
                       /\ rBackoff' = BackoffNext(rBackoff)
                       /\ rDos' = CountAttempt
                       /\ UNCHANGED <<rPC, rResult, rItems>>
                  [] v = "error" ->
                       /\ rDos' = CountAttempt
                       /\ Failed(c, c.msg)
                       /\ UNCHANGED <<rBackoff, rItems>>
                  [] v = "nil" /\ o.item = "done" ->
                       /\ rDos' = CountAttempt
                       /\ ReturnItems
                       /\ UNCHANGED <<rBackoff, rItems>>
                  [] v = "nil" /\ o.item = "item" ->
                       /\ rItems' = Append(rItems, Collected(call, o.val))
                       /\ rBackoff' = NextBackoff(call, rBackoff)
                       /\ rDos' = Append([CountAttempt EXCEPT ![Len(rDos)].got = o.val],
                                         NewDo(rBackoff'))
                       /\ UNCHANGED <<rPC, rResult>>
    /\ UNCHANGED <<rCfg, rCall, rCtx, rBackend>>
    /\ UNCHANGED <<whVars, dVars, aVars, jVars, cVars, xVars, eVars>>

FindProjects == ListNext("projects")

ListWorkerPools == ListNext("pools")

\* The caller has the result; the client serves its next call.
ReturnToCaller ==
    /\ rPC = "done"
    /\ rPC' = "idle"
    /\ rCall' = "none"
    /\ rCtx' = LiveCtx
    /\ UNCHANGED <<rCfg, rBackoff, rDos, rLast, rItems, rResult, rBackend>>
    /\ UNCHANGED <<whVars, dVars, aVars, jVars, cVars, xVars, eVars>>

\* goretry.Do finds its context done: it returns ctx.Err() without calling the
\* function, and the client function returns that error, wrapped.
DoCtxDone ==
    /\ rPC = "do"
    /\ ctxDone(rCtx)
    /\ Failed([status |-> 0], ContextCanceled)
    /\ UNCHANGED <<rCfg, rCall, rBackoff, rDos, rLast, rItems, rCtx, rBackend>>
    /\ UNCHANGED <<whVars, dVars, aVars, jVars, cVars, xVars, eVars>>

\* The caller's context is cancelled while the call is inside goretry.Do.
CancelCtx ==
    /\ rPC = "do"
    /\ ~rCtx.done
    /\ rCtx' = CancelledCtx(TRUE)
    /\ UNCHANGED <<rCfg, rCall, rPC, rBackoff, rDos, rLast, rItems, rResult, rBackend>>
    /\ UNCHANGED <<whVars, dVars, aVars, jVars, cVars, xVars, eVars>>

RNext ==
    \/ BeginCall
    \/ DoCtxDone
    \/ CancelCtx
    \/ generateJITConfig
    \/ cloudbuildCreateBuild
    \/ FindProjects
    \/ ListWorkerPools
    \/ ReturnToCaller

(***************************************************************************)
(*                 THE VALIDATION OF THE CONFIGURATION                     *)
(*                                                                         *)
(* The values of the environment are strings, modelled as sequences of     *)
(* characters; strconv.Atoi and strings.TrimSpace work on them.            *)
(***************************************************************************)
minRunnerIdleTimeoutSeconds == 5 * 60

maxRunnerIdleTimeoutSeconds == 24 * 60 * 60

minRunnerExecutionTimeoutSeconds == 1 * 60 * 60

maxRunnerExecutionTimeoutSeconds == 24 * 60 * 60

Digits == {"0", "1", "2", "3", "4", "5", "6", "7", "8", "9"}

DigitVal(c) ==
    CASE c = "0" -> 0 [] c = "1" -> 1 [] c = "2" -> 2 [] c = "3" -> 3 [] c = "4" -> 4
      [] c = "5" -> 5 [] c = "6" -> 6 [] c = "7" -> 7 [] c = "8" -> 8 [] c = "9" -> 9

\* The value of a sequence of digits, most significant first.
RECURSIVE DigitsVal(_)
DigitsVal(ds) ==
    IF ds = <<>> THEN 0
    ELSE 10 * DigitsVal(SubSeq(ds, 1, Len(ds) - 1)) + DigitVal(ds[Len(ds)])

\* strconv.Atoi: an optional sign and one or more decimal digits, nothing else.
Atoi(value) ==
    LET signed == value # <<>> /\ value[1] \in {"+", "-"}
        ds == IF signed THEN Tail(value) ELSE value
    IN  IF ds # <<>> /\ \A k \in 1..Len(ds) : ds[k] \in Digits
        THEN [ok |-> TRUE,
              num |-> IF signed /\ value[1] = "-" THEN 0 - DigitsVal(ds) ELSE DigitsVal(ds)]
        ELSE [ok |-> FALSE, num |-> 0]

\* strings.TrimSpace
RECURSIVE TrimSpace(_)
TrimSpace(str) ==
    IF str = <<>> THEN str
    ELSE IF Head(str) = " " THEN TrimSpace(Tail(str))
    ELSE IF str[Len(str)] = " " THEN TrimSpace(SubSeq(str, 1, Len(str) - 1))
    ELSE str

validateRunnerIdleTimeout(value) ==
    LET a == Atoi(value) IN
    IF ~a.ok THEN "RUNNER_IDLE_TIMEOUT_SECONDS must be an integer"
    ELSE IF a.num < minRunnerIdleTimeoutSeconds \/ a.num > maxRunnerIdleTimeoutSeconds
    THEN "RUNNER_IDLE_TIMEOUT_SECONDS must be between"
    ELSE ""

validateRunnerExecutionTimeout(value) ==
    LET a == Atoi(value) IN
    IF ~a.ok THEN "RUNNER_EXECUTION_TIMEOUT_SECONDS must be an integer"
    ELSE IF a.num < minRunnerExecutionTimeoutSeconds
            \/ a.num > maxRunnerExecutionTimeoutSeconds
    THEN "RUNNER_EXECUTION_TIMEOUT_SECONDS must be between"
    ELSE ""

\* A variant that lets ten extra runners through.
validateExtraRunnerCountInclusive(value) ==
    LET a == Atoi(value) IN
    IF ~a.ok THEN "EXTRA_RUNNER_COUNT must be an integer"
    ELSE IF a.num < 0 \/ a.num > 10
    THEN "EXTRA_RUNNER_COUNT must be in a range of [0,10)"
    ELSE ""

validateExtraRunnerCount(value) ==
    LET a == Atoi(value) IN
    IF ~a.ok THEN "EXTRA_RUNNER_COUNT must be an integer"
    ELSE IF a.num < 0 \/ a.num >= 10
    THEN "EXTRA_RUNNER_COUNT must be in a range of [0,10)"
    ELSE ""

\* Config.Validate: the checks in the order of the code, the first error wins.
\* Of the required strings GITHUB_APP_ID stands for all; the others are set.
Validate(c) ==
    IF c.Environment # "production" /\ c.Environment # "autopush"
    THEN "ENVIRONMENT must be one of 'production' or 'autopush'"
    ELSE IF c.GitHubAppID = "" THEN "GITHUB_APP_ID is required"
    ELSE IF validateRunnerIdleTimeout(c.RunnerIdleTimeoutSeconds) # ""
    THEN validateRunnerIdleTimeout(c.RunnerIdleTimeoutSeconds)
    ELSE IF validateRunnerExecutionTimeout(c.RunnerExecutionTimeoutSeconds) # ""
    THEN validateRunnerExecutionTimeout(c.RunnerExecutionTimeoutSeconds)
    ELSE IF validateExtraRunnerCount(c.ExtraRunnerCount) # ""
    THEN validateExtraRunnerCount(c.ExtraRunnerCount)
    ELSE IF TrimSpace(c.RunnerLabel) = <<>> THEN "RUNNER_LABEL is required"
    ELSE ""

NotValidated == "<not validated>"

\* The values the environment may hold.
IdleTimeouts ==
    {<<"2", "9", "9">>, <<"3", "0", "0">>, <<"1", "8", "0", "0">>,
     <<"8", "6", "4", "0", "0">>, <<"8", "6", "4", "0", "1">>,
     <<"-", "1">>, <<"a", "b", "c">>}

ExecutionTimeouts ==
    {<<"3", "5", "9", "9">>, <<"3", "6", "0", "0">>, <<"7", "2", "0", "0">>,
     <<"8", "6", "4", "0", "0">>, <<"8", "6", "4", "0", "1">>, <<"3", "0", "0">>, <<>>}

ExtraRunnerCounts ==
    {<<"-", "1">>, <<"0">>, <<"9">>, <<"1", "0">>, <<"1", "1">>, <<"+", "3">>,
     <<"1", ".", "5">>}

Configs ==
    [Environment : {"production", "autopush", "dev"},
     GitHubAppID : {"", "app"},
     RunnerIdleTimeoutSeconds : IdleTimeouts,
     RunnerExecutionTimeoutSeconds : ExecutionTimeouts,
     ExtraRunnerCount : ExtraRunnerCounts,
     RunnerLabel : {<<"g", "p", "u">>, <<" ">>, <<>>}]

CInit ==
    /\ cfg \in Configs
    /\ cfgErr = NotValidated

\* cfg.Validate() is called on the loaded configuration.
ValidateConfig ==
    /\ cfgErr = NotValidated
    /\ cfgErr' = Validate(cfg)
    /\ UNCHANGED cfg
    /\ UNCHANGED <<whVars, dVars, aVars, jVars, rVars, xVars, eVars>>

CNext == ValidateConfig

(***************************************************************************)
(*              THE REQUEST AND ITS DOWNSTREAM CALLS                       *)
(*                                                                         *)
(* One webhook request with the two clients it calls: startGitHubRunner    *)
(* hands the context of the request to s.GenerateRepoJITConfig and to      *)
(* s.cbc.CreateBuild, and each of them hands it to goretry.Do.  The        *)
(* actions of the request and of the clients are the ones above; the ones  *)
(* here are the calls and the returns between them, and the cancellation   *)
(* of the request.                                                         *)
(***************************************************************************)
\* startGitHubRunner calls s.GenerateRepoJITConfig(ctx, ...).
CallGenerateRepoJITConfig ==
    /\ whPC = "mint"
    /\ BeginCallOf("jit")

\* startGitHubRunner calls s.cbc.CreateBuild(ctx, buildReq).
CallCreateBuild ==
    /\ whPC = "build"
    /\ BeginCallOf("build")

\* The client function has returned to startGitHubRunner.
ClientReturned(call) ==
    /\ rPC = "done"
    /\ rCall = call
    /\ rPC' = "idle"
    /\ rCall' = "none"
    /\ UNCHANGED <<rCfg, rBackoff, rDos, rLast, rItems, rResult, rCtx, rBackend>>
    /\ UNCHANGED <<dVars, aVars, jVars, cVars, xVars, eVars>>

\* startGitHubRunner goes on with what s.GenerateRepoJITConfig returned.
ReturnGenerateRepoJITConfig ==
    /\ ClientReturned("jit")
    /\ JITConfigReturned(rResult.state = "ok")

\* startGitHubRunner and startRunnersForJob go on with what CreateBuild returned.
ReturnCreateBuild ==
    /\ ClientReturned("build")
    /\ CreateBuildReturned(rResult.state = "ok")

\* An outbound attempt is still to come for the request: a call is to be made
\* or is inside goretry.Do, or the call that has just returned nil is followed
\* by another one.
CallAhead ==
    \/ whPC \in {"mint", "build"} /\ rPC \in {"idle", "do"}
    \/ whPC = "mint" /\ rPC = "done" /\ rResult.state = "ok"
    \/ whPC = "build" /\ rPC = "done" /\ rResult.state = "ok"
          /\ LoopCond(spawnI + 1, server)
    \/ whPC = "loop" /\ LoopCond(spawnI, server)

\* The context of the request, r.Context(), is cancelled while the handler runs.
CancelRequest ==
    /\ whPC \in {"loop", "mint", "build"}
    /\ ~rCtx.done
    /\ rCtx' = CancelledCtx(CallAhead)
    /\ UNCHANGED <<rCfg, rCall, rPC, rBackoff, rDos, rLast, rItems, rResult, rBackend>>
    /\ UNCHANGED <<whVars, dVars, aVars, jVars, cVars, xVars, eVars>>

\* One request, from its arrival to the response handleWebhook is to write.
QNext ==
    \/ processRequest
    \/ startRunnersForJob
    \/ CallGenerateRepoJITConfig
    \/ generateJITConfig
    \/ ReturnGenerateRepoJITConfig
    \/ CallCreateBuild
    \/ cloudbuildCreateBuild
    \/ ReturnCreateBuild
    \/ DoCtxDone
    \/ CancelRequest

(***************************************************************************)
(*                 REQUESTS HANDLED AT THE SAME TIME                       *)
(*                                                                         *)
(* net/http runs handleWebhook in a goroutine of its own for each request. *)
(* All a handler works on is in its locals; the Server is only read, and   *)
(* uuid.New() is the process-wide generator.  The steps are those of the   *)
(* webhook handler above, taken by request r on its own locals.            *)
(***************************************************************************)
Reqs == 1..2

IdleReq == [pc |-> "idle", event |-> NoEvent, spawnI |-> 0, runnerID |-> 0,
            labelToUse |-> "", startedRunnerNames |-> <<>>, mints |-> <<>>,
            builds |-> <<>>, resp |-> NoResp, ids |-> <<>>, outs |-> <<>>]

\* The deliveries the two requests carry: a bad signature, an event of another
\* type, a job in progress, and queued jobs with no label, one and two labels.
ConcurrentEvents ==
    {ev \in Events :
        /\ ev.missing = "none"
        /\ ~ev.sigOK => (ev.type = "workflow_job" /\ ev.action = "queued" /\ Len(ev.labels) = 1)
        /\ ev.sigOK => (ev.type \in {"workflow_job", "push"} /\ ev.hasAction = ev.hasWorkflowJob)
        /\ ev.action \in {"queued", "in_progress", "none"}
        /\ ev.action = "in_progress" => ev.labels = <<>>}

\* A variant of the generator that numbers the ids of each request from one.
uuidNewPerRequest(issued, own) == Len(own) + 1

\* uuid.New(): an id the process has not handed out before.
uuidNew(issued, own) == issued + 1

XInit ==
    /\ reqs = [r \in Reqs |-> IdleReq]
    /\ uuidIssued = 0

XIdle == XInit

\* processRequest for request r, up to the spawn loop.
processRequestOf(r) ==
    /\ reqs[r].pc = "idle"
    /\ \E ev \in ConcurrentEvents :
         reqs' = [reqs EXCEPT ![r] =
                    [@ EXCEPT !.event = ev,
                              !.labelToUse = Dispatch(server, ev).label,
                              !.resp = Dispatch(server, ev).resp,
                              !.pc = IF Dispatch(server, ev).spawn THEN "loop" ELSE "done",
                              !.spawnI = IF Dispatch(server, ev).spawn THEN 1 ELSE 0]]
    /\ UNCHANGED uuidIssued
    /\ UNCHANGED <<whVars, dVars, aVars, jVars, rVars, cVars, eVars>>

\* startRunnersForJob for request r, head of the loop.
startRunnersForJobOf(r) ==
    /\ reqs[r].pc = "loop"
    /\ IF LoopCond(reqs[r].spawnI, server)
       THEN /\ reqs' = [reqs EXCEPT ![r] =
                          [@ EXCEPT !.runnerID = uuidNew(uuidIssued, reqs[r].ids),
                                    !.ids = Append(@, uuidNew(uuidIssued, reqs[r].ids)),
                                    !.pc = "mint"]]
            /\ uuidIssued' = uuidIssued + 1
       ELSE /\ reqs' = [reqs EXCEPT ![r] =
                          [@ EXCEPT !.resp = RunnersResp(reqs[r].startedRunnerNames),
                                    !.pc = "done"]]
            /\ UNCHANGED uuidIssued
    /\ UNCHANGED <<whVars, dVars, aVars, jVars, rVars, cVars, eVars>>

\* startGitHubRunner for request r, first half: s.GenerateRepoJITConfig.
GenerateRepoJITConfigOf(r) ==
    /\ reqs[r].pc = "mint"
    /\ \E ok \in BOOLEAN :
         reqs' = [reqs EXCEPT ![r] =
                    IF ok
                    THEN [@ EXCEPT !.mints = Append(@, [runner |-> reqs[r].runnerID,
                                                        label |-> reqs[r].labelToUse]),
                                   !.outs = Append(@, ok),
                                   !.pc = "build"]
                    ELSE [@ EXCEPT !.resp = FailedResp(reqs[r].runnerID),
                                   !.outs = Append(@, ok),
                                   !.pc = MintFailed]]
    /\ UNCHANGED uuidIssued
    /\ UNCHANGED <<whVars, dVars, aVars, jVars, rVars, cVars, eVars>>

\* startGitHubRunner for request r, second half: s.cbc.CreateBuild.
CreateBuildOf(r) ==
    /\ reqs[r].pc = "build"
    /\ \E ok \in BOOLEAN :
         reqs' = [reqs EXCEPT ![r] =
                    IF ok
                    THEN [@ EXCEPT !.builds = Append(@, [runner |-> reqs[r].runnerID,
                                                         label |-> reqs[r].labelToUse]),
                                   !.startedRunnerNames = Append(@, reqs[r].runnerID),
                                   !.spawnI = @ + 1,
                                   !.outs = Append(@, ok),
                                   !.pc = "loop"]
                    ELSE [@ EXCEPT !.resp = FailedResp(reqs[r].runnerID),
                                   !.outs = Append(@, ok),
                                   !.pc = "done"]]
    /\ UNCHANGED uuidIssued
    /\ UNCHANGED <<whVars, dVars, aVars, jVars, rVars, cVars, eVars>>

XNext ==
    \/ \E r \in Reqs : processRequestOf(r)
    \/ \E r \in Reqs : startRunnersForJobOf(r)
    \/ \E r \in Reqs : GenerateRepoJITConfigOf(r)
    \/ \E r \in Reqs : CreateBuildOf(r)

(***************************************************************************)
(*            THE JIT CONFIG FROM THE WEBHOOK TO THE RUNNER                *)
(*                                                                         *)
(* A string is the sequence of its bytes.  compress/gzip and gunzip are    *)
(* outside the repository: the model keeps the frame of a gzip member      *)
(* (magic and method, body, length) and codes the body by runs, so that    *)
(* both directions are computed.  A base64 character is its index in the   *)
(* alphabet of StdEncoding, the padding "=" is 64.                         *)
(***************************************************************************)
MaxJITLen == 3

\* The bytes a JIT string is made of here: NUL, newline and two letters.
JITBytes == {0, 10, 65, 66}

\* No value yet, and the failure of a step of the pipeline (set -euo pipefail).
NotYet == <<-1>>

Failure == <<-2>>

GzipHeader == <<31, 139, 8>>

\* The length of the run of equal bytes bs begins with.
RunLen(bs) ==
    CHOOSE n \in 1..Len(bs) :
        /\ \A k \in 1..n : bs[k] = bs[1]
        /\ n = Len(bs) \/ bs[n + 1] # bs[1]

RECURSIVE Deflate(_)
Deflate(bs) ==
    IF bs = <<>> THEN <<>>
    ELSE <<RunLen(bs), bs[1]>> \o Deflate(SubSeq(bs, RunLen(bs) + 1, Len(bs)))

RECURSIVE Inflate(_)
Inflate(ps) ==
    IF Len(ps) < 2 THEN <<>>
    ELSE [k \in 1..ps[1] |-> ps[2]] \o Inflate(SubSeq(ps, 3, Len(ps)))

\* gzipWriter.Write and Close: the member for the input.
gzipWrite(bs) == GzipHeader \o Deflate(bs) \o <<Len(bs) % 256>>

\* gunzip: the input of the member, or a failure when it is not one.
gunzip(z) ==
    IF z = Failure \/ Len(z) < 4 \/ SubSeq(z, 1, 3) # GzipHeader \/ (Len(z) - 4) % 2 # 0
    THEN Failure
    ELSE IF Len(Inflate(SubSeq(z, 4, Len(z) - 1))) % 256 # z[Len(z)]
    THEN Failure
    ELSE Inflate(SubSeq(z, 4, Len(z) - 1))

Pad == 64

\* A variant of the encoding that leaves the padding out (RawStdEncoding).
RECURSIVE EncodeToStringRaw(_)
EncodeToStringRaw(bs) ==
    IF bs = <<>> THEN <<>>
    ELSE IF Len(bs) = 1
    THEN <<bs[1] \div 4, (bs[1] % 4) * 16>>
    ELSE IF Len(bs) = 2
    THEN <<bs[1] \div 4, (bs[1] % 4) * 16 + bs[2] \div 16, (bs[2] % 16) * 4>>
    ELSE <<bs[1] \div 4, (bs[1] % 4) * 16 + bs[2] \div 16,
           (bs[2] % 16) * 4 + bs[3] \div 64, bs[3] % 64>>
         \o EncodeToStringRaw(SubSeq(bs, 4, Len(bs)))

\* base64.StdEncoding.EncodeToString: three bytes make four characters, the
\* last group is padded.
RECURSIVE EncodeToString(_)
EncodeToString(bs) ==
    IF bs = <<>> THEN <<>>
    ELSE IF Len(bs) = 1
    THEN <<bs[1] \div 4, (bs[1] % 4) * 16, Pad, Pad>>
    ELSE IF Len(bs) = 2
    THEN <<bs[1] \div 4, (bs[1] % 4) * 16 + bs[2] \div 16, (bs[2] % 16) * 4, Pad>>
    ELSE <<bs[1] \div 4, (bs[1] % 4) * 16 + bs[2] \div 16,
           (bs[2] % 16) * 4 + bs[3] \div 64, bs[3] % 64>>
         \o EncodeToString(SubSeq(bs, 4, Len(bs)))

\* The bytes of one group of four characters.
DecodeGroup(q) ==
    IF q[3] = Pad
    THEN <<q[1] * 4 + q[2] \div 16>>
    ELSE IF q[4] = Pad
    THEN <<q[1] * 4 + q[2] \div 16, (q[2] % 16) * 16 + q[3] \div 4>>
    ELSE <<q[1] * 4 + q[2] \div 16, (q[2] % 16) * 16 + q[3] \div 4,
           (q[3] % 4) * 64 + q[4]>>

\* A group is well formed: padding only at its end, and only in the last group.
GroupOK(q, last) ==
    /\ q[1] # Pad /\ q[2] # Pad
    /\ q[3] = Pad => q[4] = Pad
    /\ ~last => q[4] # Pad

RECURSIVE DecodeGroups(_)
DecodeGroups(cs) ==
    IF cs = <<>> THEN <<>>
    ELSE DecodeGroup(SubSeq(cs, 1, 4)) \o DecodeGroups(SubSeq(cs, 5, Len(cs)))

\* base64 -d: the bytes of the text, or a failure on invalid input.
base64Decode(cs) ==
    IF Len(cs) % 4 # 0
       \/ \E g \in 0..(Len(cs) \div 4 - 1) :
             ~GroupOK(SubSeq(cs, 4 * g + 1, 4 * g + 4), 4 * g + 4 = Len(cs))
    THEN Failure
    ELSE DecodeGroups(cs)

\* compressAndBase64EncodeString
compressAndBase64EncodeString(input) == EncodeToString(gzipWrite(input))

RECURSIVE StripTrailingNewlines(_)
StripTrailingNewlines(bs) ==
    IF bs # <<>> /\ bs[Len(bs)] = 10
    THEN StripTrailingNewlines(SubSeq(bs, 1, Len(bs) - 1))
    ELSE bs

IsNotNUL(b) == b # 0

\* "$( ... )": bash drops the NUL bytes of the output and strips the newlines
\* it ends with; with set -e a failed pipeline ends the script.
CommandSubstitution(out) ==
    IF out = Failure THEN Failure
    ELSE StripTrailingNewlines(SelectSeq(out, IsNotNUL))

\* start_runner.sh: ENCODED_JIT_CONFIG="$(echo "${ENCODED_JIT_CONFIG}" | base64 -d | gunzip)"
UncompressJITConfig(value) == CommandSubstitution(gunzip(base64Decode(value)))

EInit ==
    /\ encodedJITConfig \in SeqsUpTo(JITBytes, MaxJITLen)
    /\ compressedJIT = NotYet
    /\ runnerJITConfig = NotYet

EIdle ==
    /\ encodedJITConfig = <<>>
    /\ compressedJIT = NotYet
    /\ runnerJITConfig = NotYet

\* startGitHubRunner compresses the JIT config for the substitution.
CompressJIT ==
    /\ compressedJIT = NotYet
    /\ compressedJIT' = compressAndBase64EncodeString(encodedJITConfig)
    /\ UNCHANGED <<encodedJITConfig, runnerJITConfig>>
    /\ UNCHANGED <<whVars, dVars, aVars, jVars, rVars, cVars, xVars>>

\* The build runs start_runner.sh with the substitution in its environment.
StartRunner ==
    /\ compressedJIT # NotYet
    /\ runnerJITConfig = NotYet
    /\ runnerJITConfig' = UncompressJITConfig(compressedJIT)
    /\ UNCHANGED <<encodedJITConfig, compressedJIT>>
    /\ UNCHANGED <<whVars, dVars, aVars, jVars, rVars, cVars, xVars>>

ENext ==
    \/ CompressJIT
    \/ StartRunner

(***************************************************************************)
(*                        THE SPECIFICATIONS                               *)
(***************************************************************************)
\* The planes a specification does not run stay as constructed.
WhIdle ==
    /\ server = [runnerLabel |-> "self-hosted", enableSelfHostedLabel |-> FALSE,
                 extraRunnerCount |-> 0]
    /\ event = NoEvent /\ whPC = "idle" /\ spawnI = 0 /\ runnerID = 0
    /\ labelToUse = "" /\ startedRunnerNames = <<>> /\ uuidNext = 1
    /\ mints = <<>> /\ builds = <<>> /\ downstreamFailed = FALSE /\ resp = NoResp

DIdle ==
    /\ registry = EmptyMap
    /\ config = [RunnerRegistryDefaultKeyPrefix |-> "default", rc |-> TRUE]
    /\ run = [p \in DProcs |-> IdleRun]
    /\ prevCycle = [valid |-> FALSE, pools |-> EmptyMap]
    /\ idem = "none"

AIdle ==
    /\ jitConfigAllowlist = [o \in {} |-> EmptyMap]
    /\ payload = [owner |-> "acme", repo |-> "svc", labels |-> {"build"}]
    /\ lastAdd = NoAdd

JIdle == JInit

RIdle ==
    /\ rCfg = [maxRetryAttempts |-> 0]
    /\ rCall = "none" /\ rPC = "idle" /\ rBackoff = newBackoff(0)
    /\ rDos = <<>> /\ rLast = NoOutcome /\ rItems = <<>> /\ rResult = NoResult
    /\ rCtx = LiveCtx /\ rBackend = 0

CIdle ==
    /\ cfg = [Environment |-> "production", GitHubAppID |-> "app",
              RunnerIdleTimeoutSeconds |-> <<"3", "0", "0">>,
              RunnerExecutionTimeoutSeconds |-> <<"3", "6", "0", "0">>,
              ExtraRunnerCount |-> <<"0">>, RunnerLabel |-> <<"g", "p", "u">>]
    /\ cfgErr = NotValidated

\* The server of the /jit-config handler: its allowlist is one of JITAllowlists.
AJIT ==
    /\ jitConfigAllowlist \in JITAllowlists
    /\ payload = [owner |-> "acme", repo |-> "svc", labels |-> {"build"}]
    /\ lastAdd = NoAdd

InitWebhook == WhInit /\ DIdle /\ AIdle /\ JIdle /\ RIdle /\ CIdle /\ XIdle /\ EIdle

InitDiscovery == DInit /\ WhIdle /\ AIdle /\ JIdle /\ RIdle /\ CIdle /\ XIdle /\ EIdle

InitAllow == AInit /\ WhIdle /\ DIdle /\ JIdle /\ RIdle /\ CIdle /\ XIdle /\ EIdle

InitJIT == JInit /\ AJIT /\ WhIdle /\ DIdle /\ RIdle /\ CIdle /\ XIdle /\ EIdle

InitRetry == RInit /\ WhIdle /\ DIdle /\ AIdle /\ JIdle /\ CIdle /\ XIdle /\ EIdle

InitConfig == CInit /\ WhIdle /\ DIdle /\ AIdle /\ JIdle /\ RIdle /\ XIdle /\ EIdle

InitRequest == WhInit /\ RInit /\ DIdle /\ AIdle /\ JIdle /\ CIdle /\ XIdle /\ EIdle

SpecWebhook == InitWebhook /\ [][WhNext]_vars

SpecDiscovery == InitDiscovery /\ [][DNext]_vars

SpecOverlap == InitDiscovery /\ [][ONext]_vars

SpecAllow == InitAllow /\ [][ANext]_vars

SpecJIT == InitJIT /\ [][JNext]_vars

SpecRetry == InitRetry /\ [][RNext]_vars

SpecConfig == InitConfig /\ [][CNext]_vars

SpecRequest == InitRequest /\ [][QNext]_vars

ConcurrentInit == WhInit /\ XInit /\ DIdle /\ AIdle /\ JIdle /\ RIdle /\ CIdle /\ EIdle

SpecConcurrent == ConcurrentInit /\ [][XNext]_vars

InitEncode == EInit /\ WhIdle /\ DIdle /\ AIdle /\ JIdle /\ RIdle /\ CIdle /\ XIdle

SpecEncode == InitEncode /\ [][ENext]_vars

(***************************************************************************)
(*                            THE CLAIMS                                   *)
(*                                                                         *)
(* The claims speak in the specification's words: what they need of an     *)
(* event or a cycle is defined here, apart from the definitions above.     *)
(***************************************************************************)

\* The delivery being handled is a validly signed, well-formed queued event.
QueuedEvent ==
    /\ event.sigOK /\ event.type = "workflow_job"
    /\ event.hasAction /\ event.hasWorkflowJob
    /\ event.action = "queued"

\* The label policy accepts the queued event: exactly one label, which is the
\* primary label, sh-ubuntu-latest or, with the compatibility flag, self-hosted.
AcceptedByLabelPolicy ==
    /\ QueuedEvent
    /\ Len(event.labels) = 1
    /\ \/ event.labels[1] = server.runnerLabel
       \/ event.labels[1] = "sh-ubuntu-latest"
       \/ server.enableSelfHostedLabel /\ event.labels[1] = "self-hosted"

\* The outcome the claim C1 gives a request that has been answered.
SubmissionsAsPromised ==
    IF downstreamFailed
    THEN Len(builds) < 1 + server.extraRunnerCount /\ resp.code = 500
    ELSE Len(builds) = 1 + server.extraRunnerCount

\* C1, as stated: for every queued event accepted under the label policy, the
\* number of build submissions is 1 + extra_runner_count unless a JIT mint or a
\* build submission fails, and then it is strictly less and the response is 500.
C1_AsStated ==
    (whPC = "done" /\ AcceptedByLabelPolicy) => SubmissionsAsPromised

\* C1, amended: the same, for the accepted queued events that carry
\* installation.id, org.login and repo.name (one that lacks any of them is
\* answered 400 with no submission and no downstream failure).
C1_SubmissionCount ==
    (whPC = "done" /\ AcceptedByLabelPolicy /\ event.missing = "none")
        => SubmissionsAsPromised

\* C1, witness: an accepted event answered after all of 1 + 2 submissions.
C1_Witness ==
    /\ whPC = "done" /\ AcceptedByLabelPolicy /\ event.missing = "none"
    /\ server.extraRunnerCount = 2 /\ ~downstreamFailed
    /\ Len(builds) = 3 /\ resp.code = 200

\* C2, as stated: when N > 1 runners are spawned for one queued event, the first
\* failure stops further spawns and the response is 500 with a body that
\* includes the ids of the runners already started in that request.
C2_AsStated ==
    (whPC = "done" /\ AcceptedByLabelPolicy /\ server.extraRunnerCount >= 1
        /\ downstreamFailed)
    => /\ resp.code = 500
       /\ Len(mints) <= Len(builds) + 1
       /\ \A k \in 1..Len(builds) : builds[k].runner \in BodyRunnerIDs(resp)

\* C3: a queued event whose label list does not hold exactly one label causes no
\* JIT mint and no build submission and is answered 200, also when the
\* self-hosted compatibility flag is on and a label is self-hosted or the
\* primary runner label.
C3_NotOneLabelNoSpawn ==
    (QueuedEvent /\ Len(event.labels) # 1)
    => /\ mints = <<>> /\ builds = <<>>
       /\ whPC = "done" /\ resp.code = 200

\* C3, witness: two labels, the first one self-hosted, the flag on.
C3_Witness ==
    /\ QueuedEvent /\ Len(event.labels) = 2
    /\ server.enableSelfHostedLabel
    /\ event.labels[1] = "self-hosted" /\ event.labels[2] = server.runnerLabel
    /\ whPC = "done" /\ resp.code = 200 /\ builds = <<>>

\* The cycle of process 1 has ended with its transaction executed.
CycleExecuted == run[1].pc = "done" /\ run[1].executed

\* The class keys the cycle observed.
ObservedKeys == DOMAIN run[1].poolsByRegistryKey

\* C4, as stated: after every discovery cycle whose transaction executes, the
\* registry keys matching <prefix>:* are exactly the class keys observed in
\* that cycle, whatever the registry held before.
C4_AsStated ==
    CycleExecuted
        => ScanKeys(registry, config.RunnerRegistryDefaultKeyPrefix) = ObservedKeys

\* The allowlist entry added last is an exact owner key or an exact repo key
\* naming the request's own owner or repository.
AddedExactKeyOfRequest ==
    \/ lastAdd.kind = "owner" /\ lastAdd.owner = payload.owner
    \/ lastAdd.kind = "repo" /\ lastAdd.repo = payload.repo

\* C5, as stated: a request allowed under an allowlist is still allowed after
\* any entry (owner key, repo key under an owner, label in a label list) is
\* added to it.
C5_AsStated ==
    (lastAdd.kind # "none" /\ lastAdd.before) => Allowed(jitConfigAllowlist, payload)

\* C5, amended: a request allowed under an allowlist is still allowed after a
\* label is added to a label list, after a "*" key is added, and after an owner
\* or repo key is added that is not the request's own owner or repository.
C5_MonotoneUnlessShadowed ==
    (lastAdd.kind # "none" /\ lastAdd.before /\ ~AddedExactKeyOfRequest)
        => Allowed(jitConfigAllowlist, payload)

\* C5, witness: the request was allowed through a wildcard owner, a key of
\* another name was added, and the request is allowed still.
C5_Witness ==
    /\ lastAdd.kind = "repo" /\ lastAdd.before /\ ~AddedExactKeyOfRequest
    /\ payload.owner \notin DOMAIN jitConfigAllowlist
    /\ Allowed(jitConfigAllowlist, payload)

\* C6: of two identical discovery cycles run back to back (same projects,
\* labels and pools, no other writer), the second leaves the registry with
\* exactly the keys and the values the first left.
C6_Idempotent == idem # "differs"

\* C6, witness: the second of two identical cycles has executed its
\* transaction, deleting and setting a class of two pools again.
C6_Witness ==
    /\ idem = "same" /\ CycleExecuted
    /\ run[1].staleKeys # {}
    /\ \E k \in ObservedKeys : Len(run[1].poolsByRegistryKey[k]) = 2

\* The classes the cycle has written to the registry.
WrittenKeys == IF CycleExecuted THEN DOMAIN run[1].marshalledPools ELSE {}

\* C7, as stated: the serialized pool list of every class written by a cycle
\* is strictly ascending: pools[i] < pools[j] for all i < j.
C7_AsStated ==
    \A k \in WrittenKeys :
        \A i, j \in 1..Len(registry[k]) : i < j => registry[k][i] < registry[k][j]

\* C7, amended: the serialized pool list of every class written by a cycle is
\* in non-decreasing order, pools[i] <= pools[j] for all i < j; the list is not
\* deduplicated, so a pool name returned twice is serialized twice.
C7_SortedAscending ==
    \A k \in WrittenKeys :
        \A i, j \in 1..Len(registry[k]) : i < j => registry[k][i] <= registry[k][j]

\* C7, witness: a class written with two pools the listing returned in
\* descending order.
C7_Witness ==
    \E k \in WrittenKeys :
        /\ Len(run[1].poolsByRegistryKey[k]) = 2
        /\ run[1].poolsByRegistryKey[k][1] > run[1].poolsByRegistryKey[k][2]
        /\ registry[k][1] < registry[k][2]

\* C8: when the listing of the worker pools fails for a project, the cycle
\* ends with an error and has done no registry operation (no SCAN, no DEL, no
\* SET), however many projects were listed before.
C8_ListErrorNoRegistryOp ==
    run[1].err = "list"
        => /\ run[1].pc = "failed"
           /\ ~run[1].scanned /\ run[1].pipe = <<>> /\ ~run[1].executed
           /\ registry = run[1].regAtStart

\* C8, witness: the listing failed after a project had been listed, with a
\* registry client configured and keys in the registry.
C8_Witness ==
    /\ run[1].err = "list" /\ run[1].pc = "failed"
    /\ run[1].listed >= 1 /\ ObservedKeys # {}
    /\ config.rc /\ DOMAIN registry # {}

\* C9: when the scan for <prefix>:* fails, the cycle ends with an error before
\* any DEL or SET is issued, and the registry is as it was.
C9_ScanErrorNoMutation ==
    run[1].err = "scan"
        => /\ run[1].pc = "failed"
           /\ run[1].pipe = <<>> /\ ~run[1].executed
           /\ registry = run[1].regAtStart

\* C9, witness: the scan failed in a cycle that had classes to set and keys
\* to delete.
C9_Witness ==
    /\ run[1].err = "scan" /\ run[1].pc = "failed"
    /\ DOMAIN run[1].marshalledPools # {}
    /\ ScanKeys(registry, config.RunnerRegistryDefaultKeyPrefix) # {}

\* The registry with all of the cycle's deletions and SETs applied.
Reconciled ==
    [k \in (DOMAIN registry \ run[1].staleKeys) \cup DOMAIN run[1].marshalledPools |->
        IF k \in DOMAIN run[1].marshalledPools
        THEN run[1].marshalledPools[k] ELSE registry[k]]

\* C10: the registry writes of a cycle are one transaction applied all or
\* nothing: every step leaves the registry as it was or, executing the
\* transaction, applies all of the cycle's deletions and SETs at once; a
\* failed transaction leaves the registry unchanged.
C10_AllOrNothing ==
    [][/\ \/ registry' = registry
          \/ /\ run[1].pc = "exec" /\ run'[1].executed
             /\ registry' = Reconciled
       /\ (run[1].pc = "exec" /\ run'[1].pc = "failed") => registry' = registry]_vars

\* C10, witness: a transaction has executed that deleted a stale key and set
\* a class.
C10_Witness ==
    /\ CycleExecuted
    /\ run[1].staleKeys \ DOMAIN registry # {}
    /\ DOMAIN run[1].marshalledPools # {}
    /\ registry # run[1].regAtStart

\* The positions of the DEL and of the SET commands in the queued transaction.
DelPositions == {n \in 1..Len(run[1].pipe) : run[1].pipe[n].op = "DEL"}
SetPositions == {n \in 1..Len(run[1].pipe) : run[1].pipe[n].op = "SET"}

\* The key of a queued SET command.
SetKeyAt(n) == CHOOSE k \in run[1].pipe[n].keys : TRUE

\* C11: in the transaction of a cycle the deletion of all scanned stale keys is
\* queued before any SET, and the SETs of the observed classes are queued in
\* ascending lexicographic order of their keys.
C11_DelThenSortedSets ==
    run[1].pipe # <<>> =>
        /\ \A d \in DelPositions :
              /\ run[1].pipe[d].keys = run[1].staleKeys
              /\ \A n \in SetPositions : d < n
        /\ (run[1].staleKeys # {}) => DelPositions # {}
        /\ \A i, j \in SetPositions : i < j => KeyLess(SetKeyAt(i), SetKeyAt(j))
        /\ {SetKeyAt(n) : n \in SetPositions} = ObservedKeys

\* C11, witness: a transaction with a deletion and the SETs of two classes.
C11_Witness ==
    /\ Len(run[1].pipe) = 3
    /\ run[1].pipe[1].op = "DEL"
    /\ run[1].pipe[2].op = "SET" /\ run[1].pipe[3].op = "SET"

\* The runner-type and runner-label label values of the projects.
RunnerTypes == {ls.rtype : ls \in ProjectLabelSets}
RunnerLabels == {ls.rlabel : ls \in ProjectLabelSets}

\* C12, as stated: every registry key written by a cycle has the three parts
\* <prefix>:<runner-type>:<runner-label>, the configured prefix followed by the
\* runner-type and runner-label labels of the host project.
C12_AsStated ==
    \A n \in SetPositions :
        /\ Len(SetKeyAt(n)) = 3
        /\ SetKeyAt(n)[1] = config.RunnerRegistryDefaultKeyPrefix
        /\ SetKeyAt(n)[2] \in RunnerTypes
        /\ SetKeyAt(n)[3] \in RunnerLabels

\* The /jit-config request has been answered.
JITAnswered == jitResp.code # 0

\* The request's token is a valid IAP token of the configured audience.
TokenOK == jitReq.token = "valid"

\* The request's body decodes and its owner, repo and labels are not empty.
BodyOK ==
    /\ jitReq.body.decodes
    /\ jitReq.body.owner # "" /\ jitReq.body.repo # "" /\ jitReq.body.labels # {}

\* The allowlist semantics in the specification's words: the owner resolves
\* (exact key, or "*" on a miss), the repo resolves inside the resolved owner
\* entry in the same way, and every requested label is in the resolved label
\* list or the list contains "*"; an empty allowlist allows nothing.
ResolveKey(m, key) == IF key \in DOMAIN m THEN {key} ELSE {"*"} \cap DOMAIN m

AllowedAsSpecified(A, owner, repo, labels) ==
    /\ DOMAIN A # {}
    /\ \E o \in ResolveKey(A, owner) :
        \E r \in ResolveKey(A[o], repo) :
            \A l \in labels : l \in A[o][r] \/ "*" \in A[o][r]

JITAllowedAsSpecified ==
    AllowedAsSpecified(jitConfigAllowlist, jitReq.body.owner, jitReq.body.repo,
                       jitReq.body.labels)

\* s is a prefix of t.
IsPrefix(s, t) == Len(s) <= Len(t) /\ \A k \in 1..Len(s) : s[k] = t[k]

\* C13: the /jit-config guards run in the order token, body, allowlist, mint; a
\* request that fails a guard is answered with that guard's status (401 or 403
\* for the token, 400 for the body, 403 for the allowlist), and no later guard
\* and no mint is executed for it.
C13_GuardsInOrder ==
    /\ IsPrefix(guards, <<"token", "body", "allowlist", "mint">>)
    /\ JITAnswered =>
        IF ~TokenOK
        THEN jitResp.code \in {401, 403} /\ guards = <<"token">> /\ jitMints = <<>>
        ELSE IF ~BodyOK
        THEN jitResp.code = 400 /\ guards = <<"token", "body">> /\ jitMints = <<>>
        ELSE IF ~JITAllowedAsSpecified
        THEN /\ jitResp.code = 403 /\ guards = <<"token", "body", "allowlist">>
             /\ jitMints = <<>>
        ELSE guards = <<"token", "body", "allowlist", "mint">> /\ Len(jitMints) = 1

\* C13, witness: a request with a valid token and a body without labels,
\* answered 400 after the first two guards.
C13_Witness ==
    /\ JITAnswered /\ TokenOK /\ jitReq.body.decodes /\ jitReq.body.labels = {}
    /\ jitReq.body.owner = "acme" /\ jitReq.body.repo = "svc"
    /\ jitResp.code = 400 /\ guards = <<"token", "body">>

\* C14: a request is allowed exactly when the owner resolves (exact key, or "*"
\* on a miss), the repo resolves inside the resolved owner entry (exact key, or
\* "*" on a miss) and every requested label is in the resolved label list or
\* that list contains "*"; with an empty allowlist every request is denied.
C14_AllowedIffResolved ==
    Allowed(jitConfigAllowlist, payload)
        <=> AllowedAsSpecified(jitConfigAllowlist, payload.owner, payload.repo,
                               payload.labels)

\* C14, witness: a request of two labels allowed through the "*" owner key and
\* its exact repo key, while its exact owner is not a key.
C14_Witness ==
    /\ Allowed(jitConfigAllowlist, payload)
    /\ payload.labels = {"build", "deploy"}
    /\ payload.owner \notin DOMAIN jitConfigAllowlist
    /\ "*" \in DOMAIN jitConfigAllowlist
    /\ payload.repo \in DOMAIN jitConfigAllowlist["*"]

\* C15: a /jit-config request answered 401 or 403 (missing or invalid token,
\* allowlist denial) has caused no JIT mint.
C15_DeniedNoMint ==
    (JITAnswered /\ jitResp.code \in {401, 403}) => jitMints = <<>>

\* C15, witness: a request with a valid token and a complete body, denied by
\* the allowlist.
C15_Witness ==
    /\ JITAnswered /\ jitResp.code = 403 /\ TokenOK /\ BodyOK
    /\ DOMAIN jitConfigAllowlist # {}
    /\ jitMints = <<>>

\* The request has not come to the spawn loop: no runner id was drawn, no JIT
\* mint and no build submission was attempted.
NoSpawnAttempt ==
    /\ mints = <<>> /\ builds = <<>>
    /\ runnerID = 0 /\ uuidNext = 1 /\ ~downstreamFailed

\* A delivery is being handled or has been answered.
Delivered == whPC # "idle"

\* C16: a /webhook request whose signature does not match the HMAC-SHA256 of
\* the body under the configured secret is answered 400, whatever its event
\* type, action and labels.
C16_BadSignature400 ==
    (Delivered /\ ~event.sigOK)
        => whPC = "done" /\ resp.code = 400 /\ NoSpawnAttempt

\* C16, witness: a queued workflow_job event with the primary label and a bad
\* signature, answered 400.
C16_Witness ==
    /\ Delivered /\ ~event.sigOK
    /\ event.type = "workflow_job" /\ event.action = "queued"
    /\ event.labels = <<server.runnerLabel>>
    /\ resp.code = 400

\* C17: a /webhook request answered 400 has caused no JIT mint and no build
\* submission.
C17_BadRequestNoSideEffect ==
    resp.code = 400 => NoSpawnAttempt

\* C17, witness: a signed workflow_job event without its action, answered 400.
C17_Witness ==
    /\ event.sigOK /\ event.type = "workflow_job" /\ ~event.hasAction
    /\ resp.code = 400 /\ whPC = "done"

\* C18, as stated: a queued event that lacks installation.id, org.login or
\* repo.name is answered 400 and never reaches a JIT mint.
C18_AsStated ==
    (QueuedEvent /\ event.missing # "none")
        => resp.code = 400 /\ NoSpawnAttempt

\* C18, amended: a queued event that lacks installation.id, org.login or
\* repo.name never reaches a JIT mint; it is answered 400 when the label policy
\* accepts it, and 200 when the label policy, which is applied first, does not.
C18_MissingFieldsNoMint ==
    (QueuedEvent /\ event.missing # "none")
        => /\ NoSpawnAttempt /\ whPC = "done"
           /\ resp.code = IF AcceptedByLabelPolicy THEN 400 ELSE 200

\* C18, witness: an accepted queued event without org.login, answered 400.
C18_Witness ==
    /\ AcceptedByLabelPolicy /\ event.missing = "org"
    /\ resp.code = 400 /\ whPC = "done"

\* Every JIT mint and every build submission of the request carries the label.
AllSpawnedWith(label) ==
    /\ \A k \in 1..Len(mints) : mints[k].label = label
    /\ \A k \in 1..Len(builds) : builds[k].label = label

\* C19: for a queued event with exactly one label L0: if L0 is the primary
\* runner label or sh-ubuntu-latest, every runner is spawned with the primary
\* label; else if the compatibility flag is on and L0 is self-hosted, every
\* runner is spawned with self-hosted; otherwise the response is 200 and
\* nothing is spawned.
C19_LabelSelection ==
    (QueuedEvent /\ Len(event.labels) = 1) =>
        IF event.labels[1] = server.runnerLabel \/ event.labels[1] = "sh-ubuntu-latest"
        THEN AllSpawnedWith(server.runnerLabel)
        ELSE IF server.enableSelfHostedLabel /\ event.labels[1] = "self-hosted"
        THEN AllSpawnedWith("self-hosted")
        ELSE resp.code = 200 /\ whPC = "done" /\ NoSpawnAttempt

\* C19, witness: a job labelled sh-ubuntu-latest for which two runners were
\* started with the primary label of the server.
C19_Witness ==
    /\ QueuedEvent /\ event.labels = <<"sh-ubuntu-latest">>
    /\ server.runnerLabel = "custom-label"
    /\ Len(builds) = 2 /\ AllSpawnedWith("custom-label")

\* C20: a validly signed workflow_job event whose action is in_progress,
\* completed or any other value than queued is answered 200 and causes no JIT
\* mint and no build submission.
C20_NotQueued200 ==
    (Delivered /\ event.sigOK /\ event.type = "workflow_job"
        /\ event.hasAction /\ event.hasWorkflowJob /\ event.action # "queued")
    => whPC = "done" /\ resp.code = 200 /\ NoSpawnAttempt

\* C20, witness: a waiting job with the primary label, answered 200.
C20_Witness ==
    /\ event.sigOK /\ event.type = "workflow_job" /\ event.action = "waiting"
    /\ event.labels = <<server.runnerLabel>> /\ event.missing = "none"
    /\ whPC = "done" /\ resp.code = 200 /\ NoSpawnAttempt

\* C21: a validly signed delivery that is an installation-management event
\* (installation or installation_repositories) is answered 200 and ignored,
\* with no mint and no submission.
C21_InstallationIgnored ==
    (Delivered /\ event.sigOK
        /\ event.type \in {"installation", "installation_repositories"})
    => whPC = "done" /\ resp.code = 200 /\ NoSpawnAttempt

\* C21, witness: a signed installation_repositories event, answered 200.
C21_Witness ==
    /\ Delivered /\ event.sigOK /\ event.type = "installation_repositories"
    /\ resp.code = 200 /\ resp.msg = "ignored event"

\* The runner ids of the JIT mints and of the build submissions that succeeded.
MintedRunners == [k \in 1..Len(mints) |-> mints[k].runner]
BuiltRunners == [k \in 1..Len(builds) |-> builds[k].runner]

\* C22: within one webhook invocation each runner's JIT mint completes before
\* that runner's build submission starts, the mint of the next runner starts
\* only after the build submission of the one before has returned
\* successfully, and a runner whose mint fails gets no build submission.
C22_MintThenBuildSerial ==
    /\ IsPrefix(BuiltRunners, MintedRunners)
    /\ Len(mints) <= Len(builds) + 1
    /\ whPC = "mint" => Len(mints) = Len(builds) /\ Len(builds) = spawnI - 1
    /\ whPC = "build" =>
            /\ Len(mints) = Len(builds) + 1
            /\ mints[Len(mints)].runner = runnerID
    /\ \A k \in 1..Len(builds) : resp.failedRunner # builds[k].runner

\* C22, witness: the mint of the second runner is about to start, after the
\* build of the first one was submitted.
C22_Witness ==
    /\ whPC = "mint" /\ spawnI = 2
    /\ Len(mints) = 1 /\ Len(builds) = 1
    /\ builds[1].runner = mints[1].runner /\ runnerID # builds[1].runner

\* C23: a 200 "runner started" response lists in runnerNames exactly the ids
\* of the runners whose build was submitted in this request, in spawn order:
\* 1 + extra_runner_count pairwise distinct entries.
C23_RunnerNamesListed ==
    (resp.code = 200 /\ resp.msg = "runner started") =>
        /\ resp.runnerNames = BuiltRunners
        /\ Len(resp.runnerNames) = 1 + server.extraRunnerCount
        /\ \A i, j \in 1..Len(resp.runnerNames) :
                i # j => resp.runnerNames[i] # resp.runnerNames[j]

\* C23, witness: a response that lists three runners.
C23_Witness ==
    /\ resp.code = 200 /\ resp.msg = "runner started"
    /\ server.extraRunnerCount = 2 /\ Len(resp.runnerNames) = 3
    /\ resp.runnerNames = BuiltRunners


(***************************************************************************)
(* Claims on the retried downstream calls.                                 *)
(***************************************************************************)
\* A response with a 4xx status other than 429.
OtherClientError(o) == o.status >= 400 /\ o.status < 500 /\ o.status # 429

\* The goretry.Do the call is in, or was in last.
CurrentDo == rDos[Len(rDos)]

\* C24 (as stated): JIT generation is not retried on a 4xx response other than
\* 429: once GitHub has answered an attempt with such a status, no further
\* attempt is made and the call has returned an error (looked at with a
\* maxRetryAttempts of one or more).  Violated: the client
\* library reports the response together with an error, generateJITConfig
\* tests the error first and wraps it in a goretry.RetryableError.
C24_AsStated ==
    (rCall = "jit" /\ rDos # <<>> /\ rCfg.maxRetryAttempts >= 1
        /\ OtherClientError(rLast)) =>
        /\ rPC = "done"
        /\ rResult.state = "error"

\* The verdict the retry function of the call in progress gave the last attempt.
LastVerdict ==
    CASE rCall = "jit"   -> ClassifyJIT(rLast).verdict
      [] rCall = "build" -> ClassifyBuild(rLast).verdict
      [] OTHER           -> ClassifyNext(rLast).verdict

\* The retries a configuration asks for: none when the value is negative.
ConfiguredRetries == IF rCfg.maxRetryAttempts >= 0 THEN rCfg.maxRetryAttempts ELSE 0

\* C25 (as stated): for every configured value of max attempts, no goretry.Do
\* makes more attempts than the first one and the configured retries.
\* Violated: with a negative maxRetryAttempts newBackoff sets no cap.
C25_AsStated ==
    \A k \in 1..Len(rDos) : rDos[k].attempts <= 1 + ConfiguredRetries

\* C25: with maxRetryAttempts >= 0, every goretry.Do of JIT generation, of
\* build submission and of each next() of a listing makes at most
\* 1 + maxRetryAttempts attempts, and when the last of them failed with a
\* retryable error the call has returned an error to its caller.
C25_BoundedWhenCapped ==
    (rCfg.maxRetryAttempts >= 0 /\ rDos # <<>>) =>
        /\ \A k \in 1..Len(rDos) : rDos[k].attempts <= 1 + rCfg.maxRetryAttempts
        /\ (CurrentDo.attempts = 1 + rCfg.maxRetryAttempts /\ rCall # "none"
              /\ LastVerdict = "retryable") =>
               (rPC = "done" /\ rResult.state = "error")

\* C25, witness: a build submission with two retries configured that failed
\* three times and returned the error.
C25_Witness ==
    /\ rCall = "build" /\ rCfg.maxRetryAttempts = 2
    /\ rDos # <<>> /\ CurrentDo.attempts = 3
    /\ rPC = "done" /\ rResult.state = "error"

\* C26 (as stated): in a paginated listing every next() call is retried
\* independently: the goretry.Do of each next() starts with a backoff no retry
\* was taken from.  Violated by ListWorkerPools, which builds its backoff once,
\* before the loop: a retry spent by one next() is missing for every later one.
C26_AsStated ==
    rCall \in {"projects", "pools"} =>
        \A k \in 1..Len(rDos) : rDos[k].backoff.attempt = 0

\* C30 (as stated): a permanent error of the build backend is not retried:
\* once an attempt has met one, the call has returned the error (looked at
\* with a maxRetryAttempts of one or more).  Violated:
\* CreateBuild wraps every error in goretry.RetryableError.
C30_AsStated ==
    (rCall = "build" /\ rDos # <<>> /\ rCfg.maxRetryAttempts >= 1
        /\ rLast.item = "permanent") =>
        /\ rPC = "done"
        /\ rResult.state = "error"

(***************************************************************************)
(* Claims on the discovery job, continued.                                 *)
(***************************************************************************)
\* C27: once the context of a cycle is cancelled before the cycle's
\* transaction is executed, the cycle writes nothing: its transaction is never
\* executed and the registry is as the cycle found it.
C27_CancelledWritesNothing ==
    run[1].cancelled =>
        /\ ~run[1].executed
        /\ registry = run[1].regAtStart

\* C27, witness: a cycle cancelled with its transaction queued; Exec returned
\* the error and the registry still holds what the cycle found.
C27_Witness ==
    /\ run[1].cancelled /\ run[1].pc = "failed" /\ run[1].err = "exec"
    /\ run[1].pipe # <<>> /\ run[1].staleKeys # {}
    /\ registry = run[1].regAtStart

\* The pool names the cycle has recorded under some class key.
RecordedNames ==
    UNION {Range(run[1].poolsByRegistryKey[k]) : k \in DOMAIN run[1].poolsByRegistryKey}

\* The pool names the transaction of the cycle wrote to the registry.
WrittenNames ==
    IF run[1].executed
    THEN UNION {Range(registry[k]) : k \in DOMAIN run[1].marshalledPools}
    ELSE {}

\* The names the cycle has seen listed with one of the configurations cfgs.
SeenWith(cfgs) == {wp.name : wp \in {w \in run[1].seen : w.cfg \in cfgs}}

InRange(value, lo, hi) == Atoi(value).ok /\ Atoi(value).num >= lo /\ Atoi(value).num <= hi

TimeoutsAndCountInRange ==
    /\ InRange(cfg.RunnerExecutionTimeoutSeconds, 3600, 86400)
    /\ InRange(cfg.RunnerIdleTimeoutSeconds, 300, 86400)
    /\ InRange(cfg.ExtraRunnerCount, 0, 9)

\* C29: Validate returns nil only if RUNNER_EXECUTION_TIMEOUT_SECONDS is in
\* [3600, 86400], RUNNER_IDLE_TIMEOUT_SECONDS in [300, 86400] and
\* EXTRA_RUNNER_COUNT in [0, 10); with the other fields valid it returns nil
\* for every such configuration, the ends 3600, 300 and 86400 included, and
\* an error for an extra runner count of 10.
C29_ValidationRanges ==
    cfgErr # NotValidated =>
        /\ cfgErr = "" => TimeoutsAndCountInRange
        /\ (/\ cfg.Environment \in {"production", "autopush"}
            /\ cfg.GitHubAppID # ""
            /\ TrimSpace(cfg.RunnerLabel) # <<>>
            /\ TimeoutsAndCountInRange) => cfgErr = ""
        /\ cfg.ExtraRunnerCount = <<"1", "0">> => cfgErr # ""

\* C29, witness: a configuration at the ends of the intervals is accepted.
C29_Witness ==
    /\ cfgErr = ""
    /\ cfg.RunnerExecutionTimeoutSeconds = <<"8", "6", "4", "0", "0">>
    /\ cfg.RunnerIdleTimeoutSeconds = <<"3", "0", "0">>
    /\ cfg.ExtraRunnerCount = <<"9">>

\* A set of project labels holds runner-type, runner-label and runner-location,
\* each with a value that is not empty.
ThreeLabelsSet(ls) ==
    \A v \in {ls.rtype, ls.rlabel, ls.rlocation} : v # NoLabel /\ v # ""

\* C32: a project that lacks one of runner-type, runner-label, runner-location,
\* or holds an empty value for one, is skipped: no worker-pool listing is
\* issued for it, no class holds a pool on its behalf, and the skip does not
\* end the cycle.
C32_UnlabelledProjectSkipped ==
    /\ \A ls \in run[1].listedFor : ThreeLabelsSet(ls)
    /\ \A ls \in run[1].skippedFor : ~ThreeLabelsSet(ls)
    /\ \A k \in DOMAIN run[1].poolsByRegistryKey :
          \E ls \in run[1].listedFor : k = <<ls.rtype, ls.rlabel>>
    /\ (run[1].skippedFor # {} /\ run[1].pc = "failed") => run[1].err # ""

\* C32, witness: a cycle that skipped a project with an empty runner-label,
\* went on to list another project and executed its transaction.
C32_Witness ==
    /\ \E ls \in run[1].skippedFor : ls.rlabel = ""
    /\ run[1].listedFor # {}
    /\ run[1].poolsByRegistryKey # EmptyMap
    /\ run[1].executed

\* The scan of the cycle finds no key and the cycle observed no class.
NothingToDeleteOrSet ==
    /\ ScanKeys(run[1].regAtStart, config.RunnerRegistryDefaultKeyPrefix) = {}
    /\ run[1].poolsByRegistryKey = EmptyMap

\* C33: a cycle whose scan succeeded executes no transaction exactly when the
\* scan returned no key and no class was observed: it then ends without one,
\* and in every other case it queues one transaction and ends successfully
\* only by executing it.
C33_TransactionUnlessNothingToDo ==
    (config.rc /\ run[1].scanned /\ run[1].err = "") =>
        /\ run[1].pc \in {"exec", "done"}
        /\ NothingToDeleteOrSet <=> (run[1].pc = "done" /\ ~run[1].executed)
        /\ ~NothingToDeleteOrSet =>
              /\ run[1].pipe # <<>>
              /\ run[1].pc = "done" => run[1].executed

\* C33, witness: a cycle that observed no class but found a key to delete
\* executed its transaction.
C33_Witness ==
    /\ run[1].scanned /\ run[1].executed /\ run[1].pc = "done"
    /\ run[1].poolsByRegistryKey = EmptyMap
    /\ run[1].staleKeys # {}

(***************************************************************************)
(* Claims on overlapping cycles.                                           *)
(***************************************************************************)
\* Both cycles scanned before either transaction executed, and both have
\* completed successfully.
BothCompleted == \A p \in DProcs : run[p].pc = "done" /\ run[p].executed

\* The cycle whose transaction executed last.
LastExecuted == CHOOSE p \in DProcs : run[p].execSeq = Cardinality(DProcs)

\* C36 (as stated): after two overlapping cycles have completed successfully,
\* the registry keys under the prefix are the class keys of the cycle whose
\* transaction executed last.  Violated: the later transaction deletes only the
\* keys its own scan saw, and its scan ran before the other cycle wrote.
C36_AsStated ==
    BothCompleted =>
        ScanKeys(registry, config.RunnerRegistryDefaultKeyPrefix) =
            {k \in DOMAIN run[LastExecuted].poolsByRegistryKey :
                MatchesPrefix(config.RunnerRegistryDefaultKeyPrefix, k)}

(***************************************************************************)
(* Claims on the paginated listings.                                       *)
(***************************************************************************)
\* The items the iterator of the listing has yielded, in order.
RECURSIVE YieldedOf(_)
YieldedOf(dos) ==
    IF dos = <<>> THEN <<>>
    ELSE IF Head(dos).got = <<>> THEN YieldedOf(Tail(dos))
    ELSE <<Head(dos).got>> \o YieldedOf(Tail(dos))

Listing == rCall \in {"projects", "pools"}

\* What the caller is to get for the items yielded: the pools themselves, the
\* projects by the id their resource name ends with.
ExpectedItems ==
    [k \in 1..Len(YieldedOf(rDos)) |->
        IF rCall = "projects"
        THEN [ProjectID |-> YieldedOf(rDos)[k][2]]
        ELSE [Name |-> YieldedOf(rDos)[k]]]

\* C34: a listing that has returned without an error returns exactly the items
\* yielded before the "no more items" signal, in the order of the iteration; a
\* listing whose next() failed after its retries, or whose context was
\* cancelled, returns the error and no item.
C34_ListingAllOrError ==
    (Listing /\ rPC = "done") =>
        /\ rResult.state = "ok" =>
              /\ rLast.item = "done"
              /\ rResult.items = ExpectedItems
        /\ rResult.state = "error" =>
              /\ rLast.item = "error" \/ rResult.msg = ContextCanceled
              /\ rResult.items = <<>>
        /\ rResult.state \in {"ok", "error"}

\* C34, witness: a listing of worker pools returned the two pools it was
\* given, the second after a retry.
C34_Witness ==
    /\ rCall = "pools" /\ rPC = "done" /\ rResult.state = "ok"
    /\ Len(rResult.items) = 2
    /\ rResult.items[1] # rResult.items[2]
    /\ rDos[2].attempts = 2

(***************************************************************************)
(* Claims on the build submission and the backend.                         *)
(***************************************************************************)
\* C37 (as stated): each minted JIT config is embedded in at most one build
\* created in the backend: whatever the attempts of one CreateBuild call were
\* answered, the backend has created at most one build for its request
\* (looked at with a maxRetryAttempts of one or more).
\* Violated: the request carries nothing the backend could recognise a
\* repetition by, and CreateBuild sends it again after every error, also
\* after the error of an attempt the backend has carried out.
C37_AsStated ==
    (rCall = "build" /\ rCfg.maxRetryAttempts >= 1) => rBackend <= 1

(***************************************************************************)
(* Claims on the cancellation of a webhook request.                        *)
(***************************************************************************)
\* No attempt is counted in a step and the backend creates no build; a JIT
\* config or a build the request takes note of is the result of a call that
\* had returned nil before the step.
NoNewAttempt ==
    /\ (mints' # mints \/ builds' # builds) => (rPC = "done" /\ rResult.state = "ok")
    /\ rBackend' <= rBackend
    /\ \A k \in DOMAIN rDos' :
          rDos'[k].attempts <= IF k \in DOMAIN rDos THEN rDos[k].attempts ELSE 0

\* The handler has ended with the cancellation error: the client returned it
\* and the response is the 500 of the runner the call was made for.
EndedWithCancellation ==
    /\ resp.code = StatusInternalServerError
    /\ resp.failedRunner = runnerID
    /\ rResult.state = "error"
    /\ rResult.msg = ContextCanceled

\* C35 (as stated): once a webhook request is cancelled, no new JIT mint
\* attempt and no new build submission attempt is started for it, and the
\* handler ends with the cancellation error.  Violated: a request cancelled
\* after its last outbound call has returned ends with the response that call
\* led to.
C35_AsStated ==
    /\ [][rCtx.done => NoNewAttempt]_vars
    /\ []((rCtx.done /\ whPC = "done") => EndedWithCancellation)

\* C35: once a webhook request is cancelled, no new JIT mint attempt and no
\* new build submission attempt is started for it, retries and the remaining
\* extra runners included; when an outbound attempt was still to come at the
\* cancellation, the handler ends with the cancellation error in a 500.
C35_CancelledStartsNothing ==
    /\ [][rCtx.done => NoNewAttempt]_vars
    /\ []((rCtx.done /\ rCtx.callAhead /\ whPC = "done") => EndedWithCancellation)

\* C35, witness: a request for three runners, cancelled while the second
\* runner's JIT generation was being retried, ended with the cancellation
\* error after one build.
C35_Witness ==
    /\ rCtx.done /\ rCtx.callAhead /\ whPC = "done"
    /\ server.extraRunnerCount = 2
    /\ Len(builds) = 1 /\ Len(mints) = 1
    /\ rCall = "none" /\ rDos # <<>> /\ rDos[1].attempts = 2
    /\ EndedWithCancellation

(***************************************************************************)
(* Claims on requests handled at the same time.                            *)
(***************************************************************************)
\* The spawn loop run from iteration i by a handler that is alone: what it
\* answers, mints and submits when uuid.New() hands it the ids and the
\* downstream calls return the outcomes outs, in the order of the calls.
RECURSIVE AloneLoop(_, _, _, _, _, _)
AloneLoop(s, label, i, ids, outs, acc) ==
    IF ~LoopCond(i, s)
    THEN [resp |-> RunnersResp(acc.names), mints |-> acc.mints, builds |-> acc.builds]
    ELSE LET made == [runner |-> Head(ids), label |-> label]
         IN  IF ~outs[1]
             THEN [resp |-> FailedResp(Head(ids)), mints |-> acc.mints,
                   builds |-> acc.builds]
             ELSE IF ~outs[2]
             THEN [resp |-> FailedResp(Head(ids)), mints |-> Append(acc.mints, made),
                   builds |-> acc.builds]
             ELSE AloneLoop(s, label, i + 1, Tail(ids), SubSeq(outs, 3, Len(outs)),
                            [names |-> Append(acc.names, Head(ids)),
                             mints |-> Append(acc.mints, made),
                             builds |-> Append(acc.builds, made)])

\* The request handled alone, with the same delivery, ids and outcomes.
HandledAlone(s, ev, ids, outs) ==
    IF Dispatch(s, ev).spawn
    THEN AloneLoop(s, Dispatch(s, ev).label, 1, ids, outs,
                   [names |-> <<>>, mints |-> <<>>, builds |-> <<>>])
    ELSE [resp |-> Dispatch(s, ev).resp, mints |-> <<>>, builds |-> <<>>]

\* The runner ids a response names.
RunnerIDsOf(rsp) ==
    {rsp.runnerNames[k] : k \in 1..Len(rsp.runnerNames)} \cup
    (IF rsp.failedRunner = 0 THEN {} ELSE {rsp.failedRunner})

\* C38: requests handled at the same time do not interfere: in every
\* interleaving of two requests, the response of a request that has ended (its
\* status and its runnerNames) and the mints and submissions made for it are
\* those of the request handled alone, and no runner id is in both responses.
C38_NoInterference ==
    /\ \A r \in Reqs :
          reqs[r].pc = "done" =>
            LET alone == HandledAlone(server, reqs[r].event, reqs[r].ids, reqs[r].outs)
            IN  /\ reqs[r].resp = alone.resp
                /\ reqs[r].mints = alone.mints
                /\ reqs[r].builds = alone.builds
    /\ RunnerIDsOf(reqs[1].resp) \cap RunnerIDsOf(reqs[2].resp) = {}

\* C38, witness: two accepted requests for two runners each have ended, their
\* steps interleaved so that the ids were handed out in turn.
C38_Witness ==
    /\ reqs[1].pc = "done" /\ reqs[2].pc = "done"
    /\ server.extraRunnerCount = 1
    /\ reqs[1].resp.runnerNames = <<1, 3>>
    /\ reqs[2].resp.runnerNames = <<2, 4>>
    /\ Len(reqs[1].builds) = 2 /\ Len(reqs[2].builds) = 2

SurvivesCommandSubstitution(j) ==
    /\ \A k \in 1..Len(j) : j[k] # 0
    /\ j = <<>> \/ j[Len(j)] # 10

====
